---------------------------- MODULE Spec2Model ----------------------------
(***************************************************************************)
(* ContentMonitor: the shared keyword filter (config.matches_keywords),    *)
(* the three source adapters (tools/feed_reader.py, tools/google_search.py,*)
(* tools/web_scraper.py) and the URL de-duplicator of content_monitor.py.  *)
(*                                                                         *)
(* Text is a sequence of one-character strings.  The configured keyword    *)
(* lists of config.py are shortened to a few short keywords over a small   *)
(* alphabet; they keep what the lists of the source have: keywords written *)
(* in upper, lower and mixed case, a keyword listed both as REGION and as  *)
(* PRIMARY (VIARK), one listed both as REGION and as SECONDARY (Megacable),*)
(* one listed as PRIMARY and twice as SECONDARY (ilegal), and a keyword    *)
(* that is a substring of another (pirateria / antipirateria), and a       *)
(* keyword listed both as REGION and as PRIMARY that holds no other        *)
(* keyword and is held by none (IMPI).                                     *)
(***************************************************************************)
EXTENDS Integers, Sequences, FiniteSets, TLC

VARIABLES
    text,           \* matches_keywords: the argument
    match_result,   \* matches_keywords: the returned (passes, matched)
    all_rows,       \* _deduplicate: the argument
    unique_rows,    \* _deduplicate: the returned list
    web,            \* what requests.get answers for each page URL
    scrape_args,    \* WebScraperTool.execute: the keyword argument urls
    scrape_out,     \* WebScraperTool.execute: the returned JSON, or the raise
    feeds,          \* what feedparser.parse answers for each feed URL
    feed_args,      \* FeedReaderTool.execute: the keyword argument feed_urls
    feed_out,       \* FeedReaderTool.execute: the returned JSON array
    search_answer,  \* what the search provider answers to the request
    google_args,    \* GoogleSearchTool.execute: the keyword arguments
    google_out,     \* GoogleSearchTool.execute: the returned JSON, or the raise
    creds,          \* config: which credentials the environment holds
    provider,       \* what the search provider answers to each query term
    pc,             \* the statement main, or ContentAgent, stands at
    events,         \* the adapter calls and network operations issued so far
    input_list,     \* the input of the model request (run: the running list)
    response,       \* the answer to the last model request
    outcome,        \* how main or the agent's method ended
    turns,          \* ContentAgent.run: the model requests issued so far
    extract_args,   \* _extract_entries: the arguments html and base_url
    extract_out     \* _extract_entries: the returned list, or the raise

matchVars == <<text, match_result>>
dedupVars == <<all_rows, unique_rows>>
scrapeVars == <<web, scrape_args, scrape_out>>
feedVars == <<feeds, feed_args, feed_out>>
googleVars == <<search_answer, google_args, google_out>>
runVars == <<creds, provider, pc, events, input_list, response, outcome, turns>>
extractVars == <<extract_args, extract_out>>

vars == <<text, match_result, all_rows, unique_rows,
          web, scrape_args, scrape_out, feeds, feed_args, feed_out,
          search_answer, google_args, google_out,
          creds, provider, pc, events, input_list, response, outcome, turns,
          extract_args, extract_out>>

\* The value of a variable whose function has not been called.
NotCalled == [called |-> FALSE]

----------------------------------------------------------------------------
(* Bounds of the model.                                                    *)

\* Longest text handed to matches_keywords by the keyword-filter specification.
MaxTextLen == 4

\* Longest row list handed to _deduplicate.
MaxRows == 4

\* Longest URL list handed to WebScraperTool.execute and to
\* FeedReaderTool.execute.
MaxUrls == 2

\* Most entries in one parsed feed.
MaxEntries == 2

\* Most items in one answer of the search provider.
MaxItems == 2

\* The model requests of one call of ContentAgent.run are at most MaxTurns
\* (the loop of the source has no bound).
MaxTurns == 2

\* Most anchors in front of the listing of a page handed to
\* _extract_entries.
MaxAnchors == 2

----------------------------------------------------------------------------
(* Characters and str.lower().                                             *)

LowerLetters == {"v", "m", "p", "i", "k"}
UpperLetters == {"V", "M", "P", "I", "K"}
Letters == LowerLetters \cup UpperLetters

\* str.lower() on one character: an upper-case letter becomes its
\* lower-case letter, everything else (lower case, blank, punctuation) stays.
LowerChar(c) ==
    CASE c = "V" -> "v"
      [] c = "M" -> "m"
      [] c = "P" -> "p"
      [] c = "I" -> "i"
      [] c = "K" -> "k"
      [] OTHER -> c

\* str.lower()
Lower(s) == [k \in 1..Len(s) |-> LowerChar(s[k])]

\* Python's `needle in hay` on strings.
Contains(hay, needle) ==
    \E k \in 0..(Len(hay) - Len(needle)) :
        SubSeq(hay, k + 1, k + Len(needle)) = needle

----------------------------------------------------------------------------
(* The keyword lists of config.py, shortened.                              *)

kwVIARK == <<"V", "I">>              \* "VIARK": REGION and PRIMARY
kwMexico == <<"M">>                  \* "Mexico": REGION only, capitalised
kwMegacable == <<"M", "p">>          \* "Megacable": REGION and SECONDARY
kwAntipirateria == <<"i", "p">>      \* "antipirateria": PRIMARY
kwPirateria == <<"p">>               \* "pirateria": PRIMARY, inside the above
kwIlegal == <<"i">>                  \* "ilegal": PRIMARY, twice SECONDARY
kwIMPI == <<"K">>                    \* "IMPI": REGION and PRIMARY, alone

PRIMARY_KEYWORDS ==
    <<kwAntipirateria, kwPirateria, kwVIARK, kwIlegal, kwIMPI>>

SECONDARY_KEYWORDS == <<kwIlegal, kwMegacable, kwIlegal>>

REGION_KEYWORDS == <<kwVIARK, kwMexico, kwIMPI, kwMegacable>>

----------------------------------------------------------------------------
(* config.matches_keywords                                                 *)

\* [kw for kw in keywords if kw.lower() in text_lower]
KeywordHits(keywords, text_lower) ==
    SelectSeq(keywords, LAMBDA kw : Contains(text_lower, Lower(kw)))

\* A mutant of matches_keywords: the region gate is missing.
matches_keywords_no_region_gate(t) ==
    LET text_lower == Lower(t)
        region_hits == KeywordHits(REGION_KEYWORDS, text_lower)
        primary_hits == KeywordHits(PRIMARY_KEYWORDS, text_lower)
        secondary_hits == KeywordHits(SECONDARY_KEYWORDS, text_lower)
    IN  IF primary_hits = <<>> /\ secondary_hits = <<>>
        THEN <<FALSE, <<>>>>
        ELSE <<TRUE, primary_hits \o secondary_hits \o region_hits>>

\* A mutant of matches_keywords: the primary/secondary gate is missing.
matches_keywords_region_only(t) ==
    LET text_lower == Lower(t)
        region_hits == KeywordHits(REGION_KEYWORDS, text_lower)
        primary_hits == KeywordHits(PRIMARY_KEYWORDS, text_lower)
        secondary_hits == KeywordHits(SECONDARY_KEYWORDS, text_lower)
    IN  IF region_hits = <<>>
        THEN <<FALSE, <<>>>>
        ELSE <<TRUE, primary_hits \o secondary_hits \o region_hits>>

\* A mutant of matches_keywords: the hits are concatenated region first.
matches_keywords_region_first(t) ==
    LET text_lower == Lower(t)
        region_hits == KeywordHits(REGION_KEYWORDS, text_lower)
        primary_hits == KeywordHits(PRIMARY_KEYWORDS, text_lower)
        secondary_hits == KeywordHits(SECONDARY_KEYWORDS, text_lower)
    IN  IF region_hits = <<>>
        THEN <<FALSE, <<>>>>
        ELSE IF primary_hits = <<>> /\ secondary_hits = <<>>
             THEN <<FALSE, <<>>>>
             ELSE <<TRUE, region_hits \o primary_hits \o secondary_hits>>

\* A mutant of matches_keywords: the text is not lower-cased.
matches_keywords_case_sensitive(t) ==
    LET text_lower == t
        region_hits == KeywordHits(REGION_KEYWORDS, text_lower)
        primary_hits == KeywordHits(PRIMARY_KEYWORDS, text_lower)
        secondary_hits == KeywordHits(SECONDARY_KEYWORDS, text_lower)
    IN  IF region_hits = <<>>
        THEN <<FALSE, <<>>>>
        ELSE IF primary_hits = <<>> /\ secondary_hits = <<>>
             THEN <<FALSE, <<>>>>
             ELSE <<TRUE, primary_hits \o secondary_hits \o region_hits>>

\* A mutant of matches_keywords: a keyword that made the region gate is
\* not counted for the primary/secondary gate.
matches_keywords_disjoint_gates(t) ==
    LET text_lower == Lower(t)
        region_hits == KeywordHits(REGION_KEYWORDS, text_lower)
        other(kw) == \A k \in 1..Len(region_hits) : region_hits[k] # kw
        primary_hits ==
            SelectSeq(KeywordHits(PRIMARY_KEYWORDS, text_lower), other)
        secondary_hits ==
            SelectSeq(KeywordHits(SECONDARY_KEYWORDS, text_lower), other)
    IN  IF region_hits = <<>>
        THEN <<FALSE, <<>>>>
        ELSE IF primary_hits = <<>> /\ secondary_hits = <<>>
             THEN <<FALSE, <<>>>>
             ELSE <<TRUE, primary_hits \o secondary_hits \o region_hits>>

\* matches_keywords(text) -> (passes, matched_keywords)
matches_keywords(t) ==
    LET text_lower == Lower(t)
        region_hits == KeywordHits(REGION_KEYWORDS, text_lower)
        primary_hits == KeywordHits(PRIMARY_KEYWORDS, text_lower)
        secondary_hits == KeywordHits(SECONDARY_KEYWORDS, text_lower)
    IN  IF region_hits = <<>>
        THEN <<FALSE, <<>>>>
        ELSE IF primary_hits = <<>> /\ secondary_hits = <<>>
             THEN <<FALSE, <<>>>>
             ELSE <<TRUE, primary_hits \o secondary_hits \o region_hits>>

----------------------------------------------------------------------------
(* content_monitor._deduplicate                                            *)

\* A mutant of _deduplicate: rows with an empty URL are merged too.
RECURSIVE DedupLoopMergeEmpty(_, _, _)
DedupLoopMergeEmpty(rows, seen, unique) ==
    IF rows = <<>>
    THEN unique
    ELSE LET row == Head(rows)
             url == row.url
         IN  IF url \in seen
             THEN DedupLoopMergeEmpty(Tail(rows), seen, unique)
             ELSE DedupLoopMergeEmpty(Tail(rows), seen \cup {url},
                                      Append(unique, row))

\* A mutant of _deduplicate: kept rows are put in front (the order reverses).
RECURSIVE DedupLoopPrepend(_, _, _)
DedupLoopPrepend(rows, seen, unique) ==
    IF rows = <<>>
    THEN unique
    ELSE LET row == Head(rows)
             url == row.url
         IN  IF url # "" /\ url \in seen
             THEN DedupLoopPrepend(Tail(rows), seen, unique)
             ELSE DedupLoopPrepend(Tail(rows), seen \cup {url},
                                   <<row>> \o unique)

\* A mutant of DedupLoop: a row whose URL was seen takes the place of the
\* row kept for that URL.
RECURSIVE DedupLoopKeepLast(_, _, _)
DedupLoopKeepLast(rows, seen, unique) ==
    IF rows = <<>>
    THEN unique
    ELSE LET row == Head(rows)
             url == row.url
         IN  IF url # "" /\ url \in seen
             THEN DedupLoopKeepLast(Tail(rows), seen,
                      [k \in 1..Len(unique) |->
                          IF unique[k].url = url THEN row ELSE unique[k]])
             ELSE DedupLoopKeepLast(Tail(rows), seen \cup {url},
                                    Append(unique, row))

\* The loop of _deduplicate over the rows still to visit.
RECURSIVE DedupLoop(_, _, _)
DedupLoop(rows, seen, unique) ==
    IF rows = <<>>
    THEN unique
    ELSE LET row == Head(rows)
             url == row.url
         IN  IF url # "" /\ url \in seen
             THEN DedupLoop(Tail(rows), seen, unique)
             ELSE DedupLoop(Tail(rows), seen \cup {url}, Append(unique, row))

_deduplicate_merge_empty(rows) == DedupLoopMergeEmpty(rows, {}, <<>>)

_deduplicate_prepend(rows) == DedupLoopPrepend(rows, {}, <<>>)

\* _deduplicate(rows) -> unique
_deduplicate(rows) == DedupLoop(rows, {}, <<>>)

----------------------------------------------------------------------------
(* tools/web_scraper.py: constants.                                        *)

_REQUEST_TIMEOUT == 15

_MAX_ENTRIES_PER_URL == 200

\* html[:5000], the slice searched for _CAPTCHA_PATTERNS
CAPTCHA_SCAN_LEN == 5000

\* len(text) < 15
MIN_TEXT_LEN == 15

\* entry["text"][:500]
TEXT_TRIM_LEN == 500

_AUTH_STATUS_CODES == {401, 403, 407}

_CHALLENGE_STATUS_CODES == {429, 503}

_CONTAINER_TAGS ==
    {"article", "li", "div", "tr", "section", "h1", "h2", "h3", "h4"}

\* config.SCRAPE_URLS, shortened to two pages.
SCRAPE_URLS == <<"https://p1/", "http://p2/">>

----------------------------------------------------------------------------
(* URLs: urllib.parse on the URLs of the model.                            *)

\* urlparse(url): the scheme and the netloc, or the ValueError urlsplit
\* raises on an unbalanced bracket in the host ("Invalid IPv6 URL").
urlparse(url) ==
    CASE url = "https://p1/" ->
             [raised |-> FALSE, scheme |-> "https", netloc |-> "p1"]
      [] url = "http://p2/" ->
             [raised |-> FALSE, scheme |-> "http", netloc |-> "p2"]
      [] url = "ftp://p3/" ->
             [raised |-> FALSE, scheme |-> "ftp", netloc |-> "p3"]
      [] url = "p4/news" ->
             [raised |-> FALSE, scheme |-> "", netloc |-> ""]
      [] url = "http://[::1" ->
             [raised |-> TRUE, scheme |-> "", netloc |-> ""]
      [] url = "https://f1/rss" ->
             [raised |-> FALSE, scheme |-> "https", netloc |-> "f1"]
      [] url = "https://f2/rss" ->
             [raised |-> FALSE, scheme |-> "https", netloc |-> "f2"]
      [] url = "ftp://f3/rss" ->
             [raised |-> FALSE, scheme |-> "ftp", netloc |-> "f3"]
      [] url = "f4/rss" ->
             [raised |-> FALSE, scheme |-> "", netloc |-> ""]
      [] url = "https:///f5" ->
             [raised |-> FALSE, scheme |-> "https", netloc |-> ""]

\* The page URLs a list handed to the scraper may hold.
ScrapeUrlPool ==
    {"https://p1/", "http://p2/", "ftp://p3/", "p4/news", "http://[::1"}

\* The URLs requests.get is ever called on.
FetchableUrls == {"https://p1/", "http://p2/"}

\* str.strip() on the href values of the model.
StripHref(href) == IF href = " /a " THEN "/a" ELSE href

\* not href or href.startswith(("#", "javascript:", "mailto:"))
SkippedHref(href) ==
    href \in {"", "#top", "javascript:void(0)", "mailto:a@b"}

\* urljoin(base_url, href) on the href values of the model: a path is
\* resolved against the page's host, an absolute URL is kept, and an
\* unbalanced bracket in the host raises ValueError.
urljoin(base_url, href) ==
    CASE href = "http://[bad" -> [raised |-> TRUE, url |-> ""]
      [] href = "/a" ->
             [raised |-> FALSE,
              url |-> IF base_url = "https://p1/" THEN "https://p1/a"
                      ELSE "http://p2/a"]
      [] href = "/b" ->
             [raised |-> FALSE,
              url |-> IF base_url = "https://p1/" THEN "https://p1/b"
                      ELSE "http://p2/b"]
      [] OTHER -> [raised |-> FALSE, url |-> href]

----------------------------------------------------------------------------
(* WebScraperTool._validate_url and _fetch_page                            *)

\* _validate_url(url): a ValueError of urlparse is caught and gives False.
ScrapeValidateUrl(url) ==
    LET parsed == urlparse(url)
    IN  IF parsed.raised
        THEN FALSE
        ELSE parsed.scheme \in {"http", "https"} /\ parsed.netloc # ""

\* A skip reason: the text of the f-string (its dash written "-"), the
\* number it formats (0 when it formats none) and the string it formats
\* ("" when it formats none).
Reason(fmt, num, arg) == [fmt |-> fmt, num |-> num, arg |-> arg]

\* requests.Response.ok: raise_for_status() raises for 400 <= status < 600
\* only.
ResponseOk(status_code) == ~(400 <= status_code /\ status_code < 600)

\* "text/html" in content_type or "application/xhtml" in content_type
IsHtmlContentType(content_type) ==
    content_type \in {"text/html", "text/html; charset=utf-8",
                      "application/xhtml+xml"}

\* _CAPTCHA_PATTERNS.search(html[:5000]): html.captcha holds the matches
\* of the pattern in the whole body, each by the offset of its first
\* character and its length; a match is found in the slice when it ends
\* within the slice.
CaptchaInSlice(html) ==
    \E m \in html.captcha : m.start + m.length <= CAPTCHA_SCAN_LEN

\* A mutant of CaptchaInSlice: the whole body is searched.
CaptchaAnywhere(html) == html.captcha # {}

\* The classes an exception raised by requests.get is an instance of.
ExceptionClasses(exc) ==
    CASE exc = "SSLError" -> {"SSLError", "ConnectionError"}
      [] exc = "ConnectionError" -> {"ConnectionError"}
      [] exc = "ConnectTimeout" -> {"ConnectionError", "Timeout"}
      [] exc = "ReadTimeout" -> {"Timeout"}
      [] exc = "TooManyRedirects" -> {"TooManyRedirects"}
      [] exc = "ChunkedEncodingError" -> {}

\* The except clauses of _fetch_page, in order.
FetchExceptionReason(exc) ==
    LET classes == ExceptionClasses(exc)
    IN  IF "SSLError" \in classes
        THEN Reason("SSL certificate error", 0, "")
        ELSE IF "ConnectionError" \in classes
        THEN Reason("Connection error (DNS or network failure)", 0, "")
        ELSE IF "Timeout" \in classes
        THEN Reason("Request timed out after {_REQUEST_TIMEOUT}s",
                    _REQUEST_TIMEOUT, "")
        ELSE IF "TooManyRedirects" \in classes
        THEN Reason("Too many redirects", 0, "")
        ELSE Reason("Request error: {exc}", 0, exc)

\* A mutant of _fetch_page: the whole body is searched for the patterns.
_fetch_page_scan_all(url) ==
    LET resp == web[url]
    IN  IF resp.exc # "none"
        THEN [ok |-> FALSE, reason |-> FetchExceptionReason(resp.exc)]
        ELSE IF resp.status_code \in _AUTH_STATUS_CODES
        THEN [ok |-> FALSE,
              reason |-> Reason(
                  "HTTP {status_code} - authentication or access denied",
                  resp.status_code, "")]
        ELSE IF resp.status_code \in _CHALLENGE_STATUS_CODES
        THEN [ok |-> FALSE,
              reason |-> Reason(
                  "HTTP {status_code} - rate-limited or anti-bot challenge",
                  resp.status_code, "")]
        ELSE IF ~ResponseOk(resp.status_code)
        THEN [ok |-> FALSE,
              reason |-> Reason("HTTP {status_code}", resp.status_code, "")]
        ELSE IF ~IsHtmlContentType(resp.content_type)
        THEN [ok |-> FALSE,
              reason |-> Reason("Non-HTML content type: {content_type}",
                                0, resp.content_type)]
        ELSE IF CaptchaAnywhere(resp.html)
        THEN [ok |-> FALSE,
              reason |-> Reason(
                  "Page contains a CAPTCHA or anti-bot challenge", 0, "")]
        ELSE [ok |-> TRUE, html |-> resp.html]

\* _fetch_page(url) -> (html, None) or (None, reason)
_fetch_page(url) ==
    LET resp == web[url]
    IN  IF resp.exc # "none"
        THEN [ok |-> FALSE, reason |-> FetchExceptionReason(resp.exc)]
        ELSE IF resp.status_code \in _AUTH_STATUS_CODES
        THEN [ok |-> FALSE,
              reason |-> Reason(
                  "HTTP {status_code} - authentication or access denied",
                  resp.status_code, "")]
        ELSE IF resp.status_code \in _CHALLENGE_STATUS_CODES
        THEN [ok |-> FALSE,
              reason |-> Reason(
                  "HTTP {status_code} - rate-limited or anti-bot challenge",
                  resp.status_code, "")]
        ELSE IF ~ResponseOk(resp.status_code)
        THEN [ok |-> FALSE,
              reason |-> Reason("HTTP {status_code}", resp.status_code, "")]
        ELSE IF ~IsHtmlContentType(resp.content_type)
        THEN [ok |-> FALSE,
              reason |-> Reason("Non-HTML content type: {content_type}",
                                0, resp.content_type)]
        ELSE IF CaptchaInSlice(resp.html)
        THEN [ok |-> FALSE,
              reason |-> Reason(
                  "Page contains a CAPTCHA or anti-bot challenge", 0, "")]
        ELSE [ok |-> TRUE, html |-> resp.html]

----------------------------------------------------------------------------
(* WebScraperTool._extract_entries, _filter_entries and execute            *)

\* s[:n]
Take(s, n) == SubSeq(s, 1, IF Len(s) < n THEN Len(s) ELSE n)

\* The text of the context tag of an anchor: the visible text of the
\* nearest parent that is a container tag, else of the anchor itself; and
\* the anchor's own visible text when that text is empty.
ContextText(anchor) ==
    LET containers == SelectSeq(anchor.parents,
                                LAMBDA parent : parent.name \in _CONTAINER_TAGS)
        t == IF containers # <<>> THEN Head(containers).text ELSE anchor.text
    IN  IF t = <<>> THEN anchor.text ELSE t

\* The loop of _extract_entries before its first anchor: seen_urls and
\* entries are empty, no exception was raised and the loop was not left.
ExtractStart ==
    [raised |-> FALSE, stopped |-> FALSE, seen_urls |-> {}, entries |-> <<>>]

\* A mutant of ExtractStep: the loop is not left at _MAX_ENTRIES_PER_URL
\* entries.
ExtractStepNoCap(anchor, base_url, state) ==
    LET href == StripHref(anchor.href)
        joined == urljoin(base_url, href)
        t == ContextText(anchor)
        more == Append(state.entries, [url |-> joined.url, text |-> t])
    IN  IF state.raised \/ state.stopped
        THEN state
        ELSE IF ~anchor.has_href \/ SkippedHref(href)
        THEN state
        ELSE IF joined.raised
        THEN [state EXCEPT !.raised = TRUE, !.entries = <<>>]
        ELSE IF joined.url \in state.seen_urls
        THEN state
        ELSE IF Len(t) < MIN_TEXT_LEN
        THEN [state EXCEPT !.seen_urls = @ \cup {joined.url}]
        ELSE [state EXCEPT !.seen_urls = @ \cup {joined.url},
                           !.entries = more]

\* A mutant of ExtractStep: the length of the text is checked before the
\* URL is looked up in seen_urls, so the URL of a short anchor is not
\* remembered.
ExtractStepLengthFirst(anchor, base_url, state) ==
    LET href == StripHref(anchor.href)
        joined == urljoin(base_url, href)
        t == ContextText(anchor)
        more == Append(state.entries, [url |-> joined.url, text |-> t])
    IN  IF state.raised \/ state.stopped
        THEN state
        ELSE IF ~anchor.has_href \/ SkippedHref(href)
        THEN state
        ELSE IF joined.raised
        THEN [state EXCEPT !.raised = TRUE, !.entries = <<>>]
        ELSE IF Len(t) < MIN_TEXT_LEN
        THEN state
        ELSE IF joined.url \in state.seen_urls
        THEN state
        ELSE [state EXCEPT !.seen_urls = @ \cup {joined.url},
                           !.entries = more,
                           !.stopped = Len(more) >= _MAX_ENTRIES_PER_URL]

\* The body of the loop of _extract_entries for one anchor. A ValueError
\* of urljoin leaves the loop and the function (raised); the break leaves
\* the loop (stopped); after either no anchor is looked at.
ExtractStep(anchor, base_url, state) ==
    LET href == StripHref(anchor.href)
        joined == urljoin(base_url, href)
        t == ContextText(anchor)
        more == Append(state.entries, [url |-> joined.url, text |-> t])
    IN  IF state.raised \/ state.stopped
        THEN state
        ELSE IF ~anchor.has_href \/ SkippedHref(href)
        THEN state
        ELSE IF joined.raised
        THEN [state EXCEPT !.raised = TRUE, !.entries = <<>>]
        ELSE IF joined.url \in state.seen_urls
        THEN state
        ELSE IF Len(t) < MIN_TEXT_LEN
        THEN [state EXCEPT !.seen_urls = @ \cup {joined.url}]
        ELSE [state EXCEPT !.seen_urls = @ \cup {joined.url},
                           !.entries = more,
                           !.stopped = Len(more) >= _MAX_ENTRIES_PER_URL]

\* The loop of _extract_entries over anchors[lo..hi], in document order:
\* the first half of the anchors, then, unless the loop was left, the
\* second half from where the first half ended.
RECURSIVE ExtractLoop(_, _, _, _, _)
ExtractLoop(anchors, base_url, lo, hi, state) ==
    IF lo > hi
    THEN state
    ELSE IF lo = hi
    THEN ExtractStep(anchors[lo], base_url, state)
    ELSE LET mid == (lo + hi) \div 2
             half == ExtractLoop(anchors, base_url, lo, mid, state)
         IN  IF half.raised \/ half.stopped
             THEN half
             ELSE ExtractLoop(anchors, base_url, mid + 1, hi, half)

\* _extract_entries(html, base_url) -> entries, or the ValueError raised
_extract_entries(html, base_url) ==
    LET done == ExtractLoop(html.anchors, base_url, 1, Len(html.anchors),
                            ExtractStart)
    IN  [raised |-> done.raised, entries |-> done.entries]

\* _filter_entries(entries, source_url) -> filtered
RECURSIVE _filter_entries(_, _)
_filter_entries(entries, source_url) ==
    IF entries = <<>>
    THEN <<>>
    ELSE LET entry == Head(entries)
             m == matches_keywords(entry.text)
         IN  (IF m[1]
              THEN <<[url |-> entry.url,
                      text |-> Take(entry.text, TEXT_TRIM_LEN),
                      matched_keywords |-> m[2],
                      source_page |-> source_url]>>
              ELSE <<>>)
             \o _filter_entries(Tail(entries), source_url)

\* What execute gives when an exception leaves it: no JSON at all.
ScrapeRaised(exc) ==
    [called |-> TRUE, raised |-> TRUE, exc |-> exc,
     results |-> <<>>, skipped |-> <<>>, scraped |-> <<>>]

\* The loop of WebScraperTool.execute over the URLs still to visit.
\* scraped is not part of the JSON: it lists the pages whose HTML was
\* handed to _extract_entries.
RECURSIVE ScrapeLoop(_, _, _, _)
ScrapeLoop(urls, results, skipped, scraped) ==
    IF urls = <<>>
    THEN [called |-> TRUE, raised |-> FALSE, exc |-> "",
          results |-> results, skipped |-> skipped, scraped |-> scraped]
    ELSE LET url == Head(urls)
             fetched == _fetch_page(url)
             extracted == _extract_entries(fetched.html, url)
         IN  IF urlparse(url).raised    \* domain = urlparse(url).netloc or url
             THEN ScrapeRaised("ValueError")
             ELSE IF ~ScrapeValidateUrl(url)
             THEN ScrapeLoop(Tail(urls), results,
                      Append(skipped,
                             [url |-> url,
                              reason |-> Reason("Invalid URL format", 0, "")]),
                      scraped)
             ELSE IF ~fetched.ok
             THEN ScrapeLoop(Tail(urls), results,
                      Append(skipped, [url |-> url, reason |-> fetched.reason]),
                      scraped)
             ELSE IF extracted.raised
             THEN ScrapeRaised("ValueError")
             ELSE ScrapeLoop(Tail(urls),
                      results \o _filter_entries(extracted.entries, url),
                      skipped, Append(scraped, url))

\* A mutant of ScrapeEffectiveUrls: an empty list that was given is taken
\* as it is.
ScrapeEffectiveUrlsAsGiven(args) ==
    IF args.given THEN args.urls ELSE SCRAPE_URLS

\* kwargs.get("urls") or list(SCRAPE_URLS)
ScrapeEffectiveUrls(args) ==
    IF args.given /\ args.urls # <<>> THEN args.urls ELSE SCRAPE_URLS

\* WebScraperTool.execute(**kwargs)
ScrapeExecuteResult(args) ==
    ScrapeLoop(ScrapeEffectiveUrls(args), <<>>, <<>>, <<>>)

----------------------------------------------------------------------------
(* tools/feed_reader.py                                                    *)

\* config.GOOGLE_SEARCH_KEYWORDS, shortened to three query terms.
GOOGLE_SEARCH_KEYWORDS == <<"antipirateria", "iptv", "VIARK">>

\* config.RSS_FEEDS, shortened to two feeds.
RSS_FEEDS == <<"https://f1/rss", "https://f2/rss">>

\* The feed URLs a list handed to the feed reader may hold.
FeedUrlPool ==
    {"https://f1/rss", "https://f2/rss", "ftp://f3/rss", "f4/rss",
     "https:///f5", "http://[::1"}

\* The URLs feedparser.parse is ever called on.
FeedFetchable == {"https://f1/rss", "https://f2/rss", "ftp://f3/rss"}

\* FeedReaderTool._validate_url(url): any scheme will do.
FeedValidateUrl(url) ==
    LET parsed == urlparse(url)
    IN  IF parsed.raised
        THEN FALSE
        ELSE parsed.scheme # "" /\ parsed.netloc # ""

\* _extract_date(entry): the published date, else the updated date, else
\* ""; a time tuple datetime() rejects ("bad") gives "" at once.
_extract_date(entry) ==
    IF entry.published # "none"
    THEN (IF entry.published = "bad" THEN "" ELSE entry.published)
    ELSE IF entry.updated # "none"
    THEN (IF entry.updated = "bad" THEN "" ELSE entry.updated)
    ELSE ""

\* A mutant of ParseEntries: an entry that raises ends the loop, as it
\* would with no try around the body of the loop.
RECURSIVE ParseEntriesAbort(_, _)
ParseEntriesAbort(entries, feed_url) ==
    IF entries = <<>>
    THEN <<>>
    ELSE LET entry == Head(entries)
         IN  IF entry.raises
             THEN <<>>
             ELSE <<[date |-> _extract_date(entry),
                     url |-> entry.link,
                     title |-> entry.title,
                     summary |-> entry.summary,
                     source |-> feed_url]>>
                  \o ParseEntriesAbort(Tail(entries), feed_url)

\* The loop of _parse_feed over the entries still to visit: an entry that
\* raises while its dict is built is passed over.
RECURSIVE ParseEntries(_, _)
ParseEntries(entries, feed_url) ==
    IF entries = <<>>
    THEN <<>>
    ELSE LET entry == Head(entries)
         IN  (IF entry.raises
              THEN <<>>
              ELSE <<[date |-> _extract_date(entry),
                      url |-> entry.link,
                      title |-> entry.title,
                      summary |-> entry.summary,
                      source |-> feed_url]>>)
             \o ParseEntries(Tail(entries), feed_url)

\* _parse_feed(feed_url) -> articles
_parse_feed(feed_url) ==
    LET feed == feeds[feed_url]
    IN  IF feed.raises
        THEN <<>>
        ELSE IF feed.has_status /\ feed.status # 200
        THEN <<>>
        ELSE IF feed.entries = <<>>
        THEN <<>>
        ELSE ParseEntries(feed.entries, feed_url)

\* all_articles.extend(self._parse_feed(url)) for each valid feed URL
RECURSIVE ParseFeeds(_)
ParseFeeds(valid_feeds) ==
    IF valid_feeds = <<>>
    THEN <<>>
    ELSE _parse_feed(Head(valid_feeds)) \o ParseFeeds(Tail(valid_feeds))

\* f"{article.get('title', '')} {article.get('summary', '')}"
ArticleText(article) == article.title \o <<" ">> \o article.summary

\* A mutant of FilterArticles: the article is kept whatever the filter says.
RECURSIVE FilterArticlesKeepAll(_)
FilterArticlesKeepAll(articles) ==
    IF articles = <<>>
    THEN <<>>
    ELSE LET article == Head(articles)
             m == matches_keywords(ArticleText(article))
         IN  <<[date |-> article.date, url |-> article.url,
                title |-> article.title, summary |-> article.summary,
                source |-> article.source, matched_keywords |-> m[2]]>>
             \o FilterArticlesKeepAll(Tail(articles))

\* The pre-filter loop of FeedReaderTool.execute.
RECURSIVE FilterArticles(_)
FilterArticles(articles) ==
    IF articles = <<>>
    THEN <<>>
    ELSE LET article == Head(articles)
             m == matches_keywords(ArticleText(article))
         IN  (IF m[1]
              THEN <<[date |-> article.date, url |-> article.url,
                      title |-> article.title, summary |-> article.summary,
                      source |-> article.source, matched_keywords |-> m[2]]>>
              ELSE <<>>)
             \o FilterArticles(Tail(articles))

\* kwargs.get("feed_urls") or list(RSS_FEEDS)
FeedEffectiveUrls(args) ==
    IF args.given /\ args.urls # <<>> THEN args.urls ELSE RSS_FEEDS

\* The elements of urls before the first one _validate_url rejects.
RECURSIVE ValidPrefix(_)
ValidPrefix(urls) ==
    IF urls = <<>> \/ ~FeedValidateUrl(Head(urls))
    THEN <<>>
    ELSE <<Head(urls)>> \o ValidPrefix(Tail(urls))

\* A mutant of FeedExecuteResult: the first invalid URL ends the call's
\* reading of feeds.
FeedExecuteResultStopAtInvalid(args) ==
    LET feed_urls == FeedEffectiveUrls(args)
        valid_feeds == ValidPrefix(feed_urls)
        all_articles == ParseFeeds(valid_feeds)
    IN  [called |-> TRUE, ret |-> FilterArticles(all_articles),
         fetched |-> valid_feeds]

\* FeedReaderTool.execute(**kwargs). ret is the JSON array returned;
\* fetched is not part of it: it lists the URLs handed to _parse_feed, and
\* so to feedparser.parse, in the order of the calls.
FeedExecuteResult(args) ==
    LET feed_urls == FeedEffectiveUrls(args)
        valid_feeds == SelectSeq(feed_urls, FeedValidateUrl)
        all_articles == ParseFeeds(valid_feeds)
    IN  [called |-> TRUE, ret |-> FilterArticles(all_articles),
         fetched |-> valid_feeds]

----------------------------------------------------------------------------
(* tools/google_search.py                                                  *)

\* f"{result.get('title', '')} {result.get('snippet', '')}"
ResultText(result) == result.title \o <<" ">> \o result.snippet

\* The pre-filter loop of GoogleSearchTool.execute.
RECURSIVE FilterResults(_)
FilterResults(results) ==
    IF results = <<>>
    THEN <<>>
    ELSE LET result == Head(results)
             m == matches_keywords(ResultText(result))
         IN  (IF m[1]
              THEN <<[title |-> result.title, link |-> result.link,
                      snippet |-> result.snippet, matched_keywords |-> m[2]]>>
              ELSE <<>>)
             \o FilterResults(Tail(results))

\* The request execute sends: q, dateRestrict and num, with the defaults
\* "w1" and 5 of kwargs.get.
SearchRequest(args) ==
    [q |-> args.query,
     dateRestrict |-> IF args.date_given THEN args.date_restrict ELSE "w1",
     num |-> IF args.num_given THEN args.num_results ELSE 5]

\* No request was sent.
NoRequest == [q |-> "", dateRestrict |-> "", num |-> 0]

\* A mutant of GoogleExecuteResult: a failed provider call gives the empty
\* JSON array.
GoogleExecuteResultEmptyOnError(args, answer) ==
    IF ~args.has_query
    THEN [called |-> TRUE, raised |-> TRUE, request |-> NoRequest,
          is_error |-> FALSE, error |-> "", results |-> <<>>]
    ELSE [called |-> TRUE, raised |-> FALSE, request |-> SearchRequest(args),
          is_error |-> FALSE, error |-> "",
          results |-> IF answer.raises THEN <<>>
                      ELSE FilterResults(answer.items)]

\* GoogleSearchTool.execute(**kwargs): KeyError without "query"; the JSON
\* object {"error": ...} (is_error, with the message in error) when the
\* provider call raises; else the JSON array results of the hits that
\* pass the filter.
GoogleExecuteResult(args, answer) ==
    IF ~args.has_query
    THEN [called |-> TRUE, raised |-> TRUE, request |-> NoRequest,
          is_error |-> FALSE, error |-> "", results |-> <<>>]
    ELSE IF answer.raises
    THEN [called |-> TRUE, raised |-> FALSE, request |-> SearchRequest(args),
          is_error |-> TRUE, error |-> answer.message, results |-> <<>>]
    ELSE [called |-> TRUE, raised |-> FALSE, request |-> SearchRequest(args),
          is_error |-> FALSE, error |-> "",
          results |-> FilterResults(answer.items)]

----------------------------------------------------------------------------
(* Inputs.                                                                 *)

\* Every sequence over S of length at most n.
SeqUpTo(S, n) == UNION {[1..k -> S] : k \in 0..n}

\* The texts the keyword-filter specification tries.
Texts == SeqUpTo(Letters, MaxTextLen)

\* The rows the de-duplicator specification tries: the URL (possibly
\* empty) and a title telling rows with the same URL apart.
RowUrls == {"", "https://x/a", "https://x/b"}
RowTitles == {"t1", "t2"}
Rows == [url : RowUrls, title : RowTitles]

\* n characters that are part of no keyword.
Pad(n) == [k \in 1..n |-> "."]

\* Context texts of anchors: one that passes the keyword filter, one
\* with no region keyword, one that would pass but is shorter than
\* MIN_TEXT_LEN, and one whose only keywords lie beyond TEXT_TRIM_LEN.
txtHit == <<"V", "i", " ", "p">> \o Pad(16)
txtMiss == <<"i", "p">> \o Pad(18)
txtShortHit == <<"M", "p", "i">>
txtLongHit == Pad(505) \o <<"m", "p">>

\* Anchors (<a> tags) with the parents they sit in, innermost first.
Anchor(has_href, href, parents, t) ==
    [has_href |-> has_href, href |-> href, parents |-> parents, text |-> t]

anchorHit ==
    Anchor(TRUE, " /a ",
           <<[name |-> "span", text |-> <<"V", "i">>],
             [name |-> "li", text |-> txtHit],
             [name |-> "div", text |-> txtHit \o txtMiss]>>,
           <<"V", "i">>)
anchorMiss ==
    Anchor(TRUE, "/b", <<[name |-> "div", text |-> txtMiss]>>, <<"i", "p">>)
anchorShort ==
    Anchor(TRUE, "https://x/s", <<[name |-> "h2", text |-> txtShortHit]>>,
           txtShortHit)
anchorLong == Anchor(TRUE, "https://x/long", <<>>, txtLongHit)
anchorNav == Anchor(TRUE, "#top", <<[name |-> "li", text |-> txtHit]>>, txtHit)
anchorNoHref == Anchor(FALSE, "", <<[name |-> "li", text |-> txtHit]>>, txtHit)
anchorBadHref ==
    Anchor(TRUE, "http://[bad", <<[name |-> "li", text |-> txtHit]>>, txtHit)

\* A match of _CAPTCHA_PATTERNS ("verify you are human", 20 characters)
\* starting at the given offset of the body.
CaptchaAt(start) == [start |-> start, length |-> 20]

\* Page bodies: the matches of _CAPTCHA_PATTERNS and the anchors.
Page(captcha, anchors) == [captcha |-> captcha, anchors |-> anchors]

pageClean == Page({}, <<anchorNav, anchorHit, anchorMiss, anchorShort>>)
pageLong == Page({}, <<anchorNoHref, anchorLong>>)
pageEmpty == Page({}, <<>>)
pageBadHref == Page({}, <<anchorHit, anchorBadHref>>)
pageCaptchaEarly == Page({CaptchaAt(100)}, <<anchorHit>>)
pageCaptchaEdge == Page({CaptchaAt(4980)}, <<anchorHit>>)
pageCaptchaStraddle == Page({CaptchaAt(4981)}, <<anchorHit>>)
pageCaptchaLate == Page({CaptchaAt(5000), CaptchaAt(7000)}, <<anchorHit>>)

\* A page with a link to the URL of entryHit and itemHit.
anchorShared ==
    Anchor(TRUE, "https://x/a", <<[name |-> "li", text |-> txtHit]>>,
           <<"V", "i">>)
pageShared == Page({}, <<anchorShared, anchorMiss>>)

PageBodies ==
    {pageClean, pageLong, pageEmpty, pageBadHref, pageCaptchaEarly,
     pageCaptchaEdge, pageCaptchaStraddle, pageCaptchaLate}

\* The pages handed to _extract_entries on its own. A short page holds
\* up to MaxAnchors anchors (among them two anchors to one URL, the first
\* with a short text, the second with a long one). A long page holds a
\* few anchors and then a listing of links to different URLs, each in a
\* list item of 20 characters, of about _MAX_ENTRIES_PER_URL links. Every
\* page ends with nothing or with an anchor whose href urljoin cannot
\* resolve.
anchorShortAgain ==
    Anchor(TRUE, "https://x/s", <<[name |-> "li", text |-> txtHit]>>, txtHit)

ListingAnchor(k) ==
    Anchor(TRUE, "https://x/n" \o ToString(k),
           <<[name |-> "li", text |-> txtMiss]>>, <<"i", "p">>)

Listing(n) == [k \in 1..n |-> ListingAnchor(k)]

ExtractAnchors ==
    {anchorHit, anchorMiss, anchorShort, anchorShortAgain, anchorNav,
     anchorNoHref}

ListingFronts ==
    {<<>>, <<anchorHit>>, <<anchorShort, anchorShortAgain>>,
     <<anchorHit, anchorNav, anchorHit>>}

ListingLengths ==
    {_MAX_ENTRIES_PER_URL - 2, _MAX_ENTRIES_PER_URL - 1,
     _MAX_ENTRIES_PER_URL, _MAX_ENTRIES_PER_URL + 1}

ExtractPages ==
    {Page({}, front \o back) :
        front \in SeqUpTo(ExtractAnchors, MaxAnchors),
        back \in {<<>>, <<anchorBadHref>>}}
    \cup {Page({}, front \o Listing(n) \o back) :
              front \in ListingFronts,
              n \in ListingLengths,
              back \in {<<>>, <<anchorBadHref>>}}

\* The exceptions requests.get raises in the model.
RequestExceptions ==
    {"SSLError", "ConnectionError", "ConnectTimeout", "ReadTimeout",
     "TooManyRedirects", "ChunkedEncodingError"}

\* The status codes a final response carries in the model (a 3xx without a
\* Location header is not followed and is returned as it is).
StatusCodes == {200, 204, 304, 401, 403, 404, 407, 429, 500, 503}

ContentTypes ==
    {"text/html; charset=utf-8", "application/xhtml+xml",
     "application/pdf", ""}

Response(exc, status_code, content_type, html) ==
    [exc |-> exc, status_code |-> status_code,
     content_type |-> content_type, html |-> html]

\* What requests.get may answer for a page: an exception; any status with
\* an HTML page; status 200 with any content type; status 200 with any of
\* the page bodies.
Responses ==
    {Response(e, 0, "", pageEmpty) : e \in RequestExceptions}
    \cup {Response("none", c, "text/html; charset=utf-8", pageClean) :
              c \in StatusCodes}
    \cup {Response("none", 200, ct, pageClean) : ct \in ContentTypes}
    \cup {Response("none", 200, "text/html; charset=utf-8", b) :
              b \in PageBodies}

\* The keyword arguments of WebScraperTool.execute: urls omitted, or a list.
ScrapeArgs ==
    {[given |-> FALSE, urls |-> <<>>]}
    \cup {[given |-> TRUE, urls |-> u] : u \in SeqUpTo(ScrapeUrlPool, MaxUrls)}

\* Feed entries: the title, the summary, the link and the parsed dates
\* ("none": absent, "bad": a time tuple datetime() rejects); raises: the
\* entry raises while its dict is built.
FeedEntry(title, summary, link, published, updated, raises) ==
    [title |-> title, summary |-> summary, link |-> link,
     published |-> published, updated |-> updated, raises |-> raises]

entryHit ==
    FeedEntry(<<"V", "i">>, <<"p">>, "https://x/a", "2024-05-01", "none", FALSE)
entryNoRegion ==
    FeedEntry(<<"p", "i">>, <<>>, "https://x/b", "none", "2024-05-02", FALSE)
entryRegionOnly == FeedEntry(<<"M">>, <<>>, "", "none", "none", FALSE)
entrySplitHit ==
    FeedEntry(<<"M">>, <<"p">>, "https://x/a", "bad", "2024-05-03", FALSE)
entryRaises == FeedEntry(<<"V", "i">>, <<"p">>, "https://x/c", "none", "none", TRUE)

FeedEntries ==
    {entryHit, entryNoRegion, entryRegionOnly, entrySplitHit, entryRaises}

\* What feedparser.parse answers: it raises, or a feed with a status
\* (absent when nothing was fetched over HTTP) and entries.
ParsedFeed(raises, has_status, status, entries) ==
    [raises |-> raises, has_status |-> has_status, status |-> status,
     entries |-> entries]

\* The answers for the first feed: any entries with status 200, and one
\* entry with each of the other statuses.
FeedAnswers ==
    {ParsedFeed(TRUE, FALSE, 0, <<>>)}
    \cup {ParsedFeed(FALSE, TRUE, 200, e) : e \in SeqUpTo(FeedEntries, MaxEntries)}
    \cup {ParsedFeed(FALSE, FALSE, 0, <<entryHit>>)}
    \cup {ParsedFeed(FALSE, TRUE, c, <<entryHit>>) : c \in {301, 404, 500}}

\* The answers for the other feeds.
OtherFeedAnswers ==
    {ParsedFeed(TRUE, FALSE, 0, <<>>),
     ParsedFeed(FALSE, TRUE, 200, <<entrySplitHit, entryNoRegion>>)}

FeedWorlds ==
    {[u \in FeedFetchable |-> IF u = "https://f1/rss" THEN a ELSE b] :
        a \in FeedAnswers, b \in OtherFeedAnswers}

\* The keyword arguments of FeedReaderTool.execute.
FeedArgs ==
    {[given |-> FALSE, urls |-> <<>>]}
    \cup {[given |-> TRUE, urls |-> u] : u \in SeqUpTo(FeedUrlPool, MaxUrls)}

\* Search hits: title, link and snippet.
SearchItem(title, link, snippet) ==
    [title |-> title, link |-> link, snippet |-> snippet]

itemHit == SearchItem(<<"V", "i">>, "https://x/a", <<"p">>)
itemNoRegion == SearchItem(<<"p", "i">>, "https://x/d", <<>>)
itemSnippetHit == SearchItem(<<>>, "", <<"M", "p">>)
itemRegionOnly == SearchItem(<<"M">>, "https://x/e", <<>>)

SearchItems == {itemHit, itemNoRegion, itemSnippetHit, itemRegionOnly}

\* What the provider answers: the call raises, or a list of items.
SearchAnswers ==
    {[raises |-> TRUE, message |-> m, items |-> <<>>] :
        m \in {"HttpError 403", "timed out"}}
    \cup {[raises |-> FALSE, message |-> "", items |-> i] :
              i \in SeqUpTo(SearchItems, MaxItems)}

\* The keyword arguments of GoogleSearchTool.execute: without query; with
\* a query and with or without date_restrict; with a query and a
\* num_results inside or outside the range 1-10 the schema describes
\* (nothing checks the arguments against the schema).
GoogleArgs ==
    {[has_query |-> FALSE, query |-> "", num_given |-> FALSE,
      num_results |-> 0, date_given |-> FALSE, date_restrict |-> ""]}
    \cup {[has_query |-> TRUE, query |-> q, num_given |-> FALSE,
           num_results |-> 0, date_given |-> d # "", date_restrict |-> d] :
              q \in {"iptv", "VIARK"}, d \in {"", "d1"}}
    \cup {[has_query |-> TRUE, query |-> q, num_given |-> TRUE,
           num_results |-> n, date_given |-> FALSE, date_restrict |-> ""] :
              q \in {"iptv"}, n \in {0, 1, 10, 11}}

----------------------------------------------------------------------------
(* Specification of the keyword filter: one call on any text.              *)

MatchIdle == /\ text = <<>>
             /\ match_result = NotCalled

DedupIdle == /\ all_rows = <<>>
             /\ unique_rows = NotCalled

\* The worlds of a specification that calls no adapter.
IdleWeb == [u \in FetchableUrls |-> Response("none", 200, "", pageEmpty)]
IdleFeeds == [u \in FeedFetchable |-> ParsedFeed(TRUE, FALSE, 0, <<>>)]
IdleSearchAnswer == [raises |-> FALSE, message |-> "", items |-> <<>>]

\* No adapter is called.
ToolsIdle ==
    /\ web = IdleWeb
    /\ scrape_args = [given |-> FALSE, urls |-> <<>>]
    /\ scrape_out = NotCalled
    /\ feeds = IdleFeeds
    /\ feed_args = [given |-> FALSE, urls |-> <<>>]
    /\ feed_out = NotCalled
    /\ search_answer = IdleSearchAnswer
    /\ google_args = CHOOSE a \in GoogleArgs : ~a.has_query
    /\ google_out = NotCalled

\* Neither main nor a method of ContentAgent runs.
NoResponse == [exc |-> "none", output |-> <<>>]

Outcome(done, raised, exc, exit_code, t) ==
    [done |-> done, raised |-> raised, exc |-> exc, exit_code |-> exit_code,
     text |-> t]

NoOutcome == Outcome(FALSE, FALSE, "", 0, <<>>)

AllCredentials ==
    [google_api_key |-> TRUE, google_cse_id |-> TRUE, openai_api_key |-> TRUE]

IdleProvider ==
    [q \in {GOOGLE_SEARCH_KEYWORDS[k] : k \in 1..Len(GOOGLE_SEARCH_KEYWORDS)}
        |-> IdleSearchAnswer]

RunIdle ==
    /\ creds = AllCredentials
    /\ provider = IdleProvider
    /\ pc = "idle"
    /\ events = <<>>
    /\ input_list = <<>>
    /\ response = NoResponse
    /\ outcome = NoOutcome
    /\ turns = 0

\* _extract_entries is not called on its own.
ExtractIdle ==
    /\ extract_args = [html |-> pageEmpty, base_url |-> "https://p1/"]
    /\ extract_out = NotCalled

InitMatch ==
    /\ text \in Texts
    /\ match_result = NotCalled
    /\ DedupIdle
    /\ ToolsIdle
    /\ RunIdle
    /\ ExtractIdle

CallMatchesKeywords ==
    /\ match_result = NotCalled
    /\ match_result' = [called |-> TRUE, ret |-> matches_keywords(text)]
    /\ UNCHANGED <<extractVars, text, dedupVars, scrapeVars, feedVars, googleVars, runVars>>

NextMatch == CallMatchesKeywords

SpecMatch == InitMatch /\ [][NextMatch]_vars

----------------------------------------------------------------------------
(* Specification of the de-duplicator: one call on any row list.           *)

InitDedup ==
    /\ all_rows \in SeqUpTo(Rows, MaxRows)
    /\ unique_rows = NotCalled
    /\ MatchIdle
    /\ ExtractIdle
    /\ ToolsIdle
    /\ RunIdle

CallDeduplicate ==
    /\ unique_rows = NotCalled
    /\ unique_rows' = [called |-> TRUE, ret |-> _deduplicate(all_rows)]
    /\ UNCHANGED <<extractVars, matchVars, all_rows, scrapeVars, feedVars, googleVars,
                   runVars>>

NextDedup == CallDeduplicate

SpecDedup == InitDedup /\ [][NextDedup]_vars

----------------------------------------------------------------------------
(* Specification of the adapters: one call of execute of one of the three  *)
(* tools, with any argument.  The world (what the network answers during   *)
(* the call) is any world for one of the tools.                            *)


InitTools ==
    /\ \/ /\ web \in [FetchableUrls -> Responses]
          /\ feeds = IdleFeeds
          /\ search_answer = IdleSearchAnswer
       \/ /\ web = IdleWeb
          /\ feeds \in FeedWorlds
          /\ search_answer = IdleSearchAnswer
       \/ /\ web = IdleWeb
          /\ feeds = IdleFeeds
          /\ search_answer \in SearchAnswers
    /\ scrape_args = [given |-> FALSE, urls |-> <<>>]
    /\ scrape_out = NotCalled
    /\ feed_args = [given |-> FALSE, urls |-> <<>>]
    /\ feed_out = NotCalled
    /\ google_args = CHOOSE a \in GoogleArgs : ~a.has_query
    /\ google_out = NotCalled
    /\ MatchIdle
    /\ ExtractIdle
    /\ DedupIdle
    /\ RunIdle

NoToolCalled ==
    /\ scrape_out = NotCalled
    /\ feed_out = NotCalled
    /\ google_out = NotCalled

ScrapeExecute ==
    /\ NoToolCalled
    /\ \E args \in ScrapeArgs :
           /\ scrape_args' = args
           /\ scrape_out' = ScrapeExecuteResult(args)
    /\ UNCHANGED <<extractVars, matchVars, dedupVars, web, feedVars, googleVars, runVars>>

FeedExecute ==
    /\ NoToolCalled
    /\ \E args \in FeedArgs :
           /\ feed_args' = args
           /\ feed_out' = FeedExecuteResult(args)
    /\ UNCHANGED <<extractVars, matchVars, dedupVars, scrapeVars, feeds, googleVars,
                   runVars>>

GoogleExecute ==
    /\ NoToolCalled
    /\ \E args \in GoogleArgs :
           /\ google_args' = args
           /\ google_out' = GoogleExecuteResult(args, search_answer)
    /\ UNCHANGED <<extractVars, matchVars, dedupVars, scrapeVars, feedVars, search_answer,
                   runVars>>

NextTools ==
    \/ ScrapeExecute
    \/ FeedExecute
    \/ GoogleExecute

SpecTools == InitTools /\ [][NextTools]_vars

----------------------------------------------------------------------------
(* Specification of the entry extraction: one call of _extract_entries on  *)
(* any of the pages, with the URL of either page for base_url.             *)

InitExtract ==
    /\ extract_args \in [html : ExtractPages, base_url : FetchableUrls]
    /\ extract_out = NotCalled
    /\ MatchIdle
    /\ DedupIdle
    /\ ToolsIdle
    /\ RunIdle

CallExtractEntries ==
    /\ extract_out = NotCalled
    /\ extract_out' =
           [called |-> TRUE,
            ret |-> _extract_entries(extract_args.html, extract_args.base_url)]
    /\ UNCHANGED <<extract_args, matchVars, dedupVars, scrapeVars, feedVars,
                   googleVars, runVars>>

NextExtract == CallExtractEntries

SpecExtract == InitExtract /\ [][NextExtract]_vars

----------------------------------------------------------------------------
(* content_monitor.py: the deterministic run of main.                      *)
(* Text that is printed or returned is a sequence of string segments, to   *)
(* be read one after the other.                                            *)

\* An adapter call (op "execute") or a network operation, as it is issued.
Event(op, arg) == [op |-> op, arg |-> arg]

\* A mutant of validate_google_credentials: the search engine id is not
\* looked at.
validate_google_credentials_key_only ==
    IF ~creds.google_api_key
    THEN [exits |-> TRUE,
          printed |-> <<"Error: ",
              "Google API credentials are not configured in the .env file">>]
    ELSE [exits |-> FALSE, printed |-> <<>>]

\* validate_google_credentials(): whether it leaves the process with
\* sys.exit(1), and the line it prints before.
validate_google_credentials ==
    IF ~creds.google_api_key \/ ~creds.google_cse_id
    THEN [exits |-> TRUE,
          printed |-> <<"Error: ",
              "Google API credentials are not configured in the .env file">>]
    ELSE [exits |-> FALSE, printed |-> <<>>]

\* validate_openai_credentials()
validate_openai_credentials ==
    IF ~creds.openai_api_key
    THEN [exits |-> TRUE,
          printed |-> <<"Error: ",
              "OPENAI_API_KEY is not configured in the .env file">>]
    ELSE [exits |-> FALSE, printed |-> <<>>]

\* ", ".join(keywords)
RECURSIVE Join(_)
Join(keywords) ==
    IF keywords = <<>>
    THEN <<>>
    ELSE IF Len(keywords) = 1
    THEN Head(keywords)
    ELSE Head(keywords) \o <<",", " ">> \o Join(Tail(keywords))

\* A row of the CSV.
Row(date, url, title, summary, source, matched_keywords, tool) ==
    [date |-> date, url |-> url, title |-> title, summary |-> summary,
     source |-> source, matched_keywords |-> matched_keywords, tool |-> tool]

\* A mutant of FeedRows: the matched keywords are not carried over.
FeedRowsNoKeywords(raw) ==
    [k \in 1..Len(raw) |->
        Row(raw[k].date, raw[k].url, raw[k].title, raw[k].summary,
            raw[k].source, <<>>, "read_feeds")]

\* The rows _collect_feeds makes of the adapter's articles.
FeedRows(raw) ==
    [k \in 1..Len(raw) |->
        Row(raw[k].date, raw[k].url, raw[k].title, raw[k].summary,
            raw[k].source, Join(raw[k].matched_keywords), "read_feeds")]

\* _collect_feeds(): the adapter's output, the rows, and what was issued.
_collect_feeds ==
    LET out == FeedExecuteResult([given |-> FALSE, urls |-> <<>>])
    IN  [out |-> out,
         rows |-> FeedRows(out.ret),
         events |-> <<Event("execute", "read_feeds")>>
                    \o [k \in 1..Len(out.fetched) |->
                           Event("feedparser.parse", out.fetched[k])]]

\* The keyword arguments a call may carry: feed_urls (given, urls), query
\* (has_query, query), num_results and date_restrict.
EmptyKwargs ==
    [given |-> FALSE, urls |-> <<>>, has_query |-> FALSE, query |-> "",
     num_given |-> FALSE, num_results |-> 0,
     date_given |-> FALSE, date_restrict |-> ""]

\* The rows _collect_google makes of the hits of one search.
GoogleRows(raw) ==
    [k \in 1..Len(raw) |->
        Row("", raw[k].link, raw[k].title, raw[k].snippet, "Google Search",
            Join(raw[k].matched_keywords), "google_search")]

\* A mutant of CollectGoogleLoop: an error marker ends the loop (break in
\* the place of continue).
RECURSIVE CollectGoogleLoopBreak(_, _, _)
CollectGoogleLoopBreak(keywords, rows, issued) ==
    IF keywords = <<>>
    THEN [rows |-> rows, events |-> issued]
    ELSE LET keyword == Head(keywords)
             raw == GoogleExecuteResult(
                        [EmptyKwargs EXCEPT !.has_query = TRUE,
                                            !.query = keyword],
                        provider[keyword])
             more == issued \o <<Event("execute", "google_search"),
                                 Event("cse.list", raw.request.q)>>
         IN  IF raw.is_error
             THEN [rows |-> rows, events |-> more]
             ELSE CollectGoogleLoopBreak(Tail(keywords),
                      rows \o GoogleRows(raw.results), more)

\* The loop of _collect_google over the query terms still to search:
\* tool.execute(query=keyword), then continue on the error marker.
RECURSIVE CollectGoogleLoop(_, _, _)
CollectGoogleLoop(keywords, rows, issued) ==
    IF keywords = <<>>
    THEN [rows |-> rows, events |-> issued]
    ELSE LET keyword == Head(keywords)
             raw == GoogleExecuteResult(
                        [EmptyKwargs EXCEPT !.has_query = TRUE,
                                            !.query = keyword],
                        provider[keyword])
             more == issued \o <<Event("execute", "google_search"),
                                 Event("cse.list", raw.request.q)>>
         IN  IF raw.is_error
             THEN CollectGoogleLoop(Tail(keywords), rows, more)
             ELSE CollectGoogleLoop(Tail(keywords),
                      rows \o GoogleRows(raw.results), more)

\* _collect_google()
_collect_google == CollectGoogleLoop(GOOGLE_SEARCH_KEYWORDS, <<>>, <<>>)

\* The URLs WebScraperTool.execute calls requests.get on, in the order of
\* the calls: the valid URLs, up to the one at which an exception leaves
\* execute.
RECURSIVE ScrapeRequests(_)
ScrapeRequests(urls) ==
    IF urls = <<>>
    THEN <<>>
    ELSE LET url == Head(urls)
             fetched == _fetch_page(url)
         IN  IF urlparse(url).raised
             THEN <<>>
             ELSE IF ~ScrapeValidateUrl(url)
             THEN ScrapeRequests(Tail(urls))
             ELSE IF fetched.ok /\ _extract_entries(fetched.html, url).raised
             THEN <<url>>
             ELSE <<url>> \o ScrapeRequests(Tail(urls))

\* _collect_scrapes(): the adapter's output, the rows, and what was issued;
\* an exception that leaves execute leaves _collect_scrapes too.
_collect_scrapes ==
    LET out == ScrapeExecuteResult([given |-> FALSE, urls |-> <<>>])
        requests == ScrapeRequests(SCRAPE_URLS)
    IN  [out |-> out,
         rows |-> [k \in 1..Len(out.results) |->
                      Row("", out.results[k].url, <<>>, out.results[k].text,
                          out.results[k].source_page,
                          Join(out.results[k].matched_keywords),
                          "scrape_pages")],
         events |-> <<Event("execute", "scrape_pages")>>
                    \o [k \in 1..Len(requests) |->
                           Event("requests.get", requests[k])]]

\* _write_csv(unique_rows, CSV_PATH) and _read_csv_as_text(CSV_PATH): the
\* header line and the rows.
csv_text(rows) ==
    [header |-> <<"date", "url", "title", "summary", "source",
                  "matched_keywords", "tool">>,
     rows |-> rows]

\* An item of the input of a model request, or of the output of a model
\* response.
Item(type, role, content, name, call_id, arguments, output) ==
    [type |-> type, role |-> role, content |-> content, name |-> name,
     call_id |-> call_id, arguments |-> arguments, output |-> output]

\* {"role": role, "content": content}, and a message of the model.
Message(role, content) ==
    Item("message", role, content, "", "",
         [json |-> "none", kwargs |-> EmptyKwargs], [kind |-> "none"])

\* A mutant of ModelFailure: no except clause for the other exceptions.
ModelFailureNoCatchAll(exc) ==
    CASE exc = "AuthenticationError" ->
             [raised |-> FALSE,
              text |-> <<"Error: ", "Invalid API key. Check your .env file.">>]
      [] exc = "RateLimitError" ->
             [raised |-> FALSE,
              text |-> <<"Error: ", "No OpenAI credits remaining. ",
                  "Add billing at https://platform.openai.com/account/billing.">>]
      [] OTHER -> [raised |-> TRUE, text |-> <<>>]

\* The except clauses around responses.create, in run and in summarize:
\* what the method returns when the request raised exc.
ModelFailure(exc) ==
    CASE exc = "AuthenticationError" ->
             [raised |-> FALSE,
              text |-> <<"Error: ", "Invalid API key. Check your .env file.">>]
      [] exc = "RateLimitError" ->
             [raised |-> FALSE,
              text |-> <<"Error: ", "No OpenAI credits remaining. ",
                  "Add billing at https://platform.openai.com/account/billing.">>]
      [] OTHER ->
             [raised |-> FALSE,
              text |-> <<"Error: ", "An unexpected error occurred: ", exc>>]

\* response.output_text: the text of the message items of the output.
RECURSIVE output_text(_)
output_text(output) ==
    IF output = <<>>
    THEN <<>>
    ELSE (IF Head(output).type = "message" THEN Head(output).content ELSE <<>>)
         \o output_text(Tail(output))

\* ContentAgent.summarize(text, instructions), given the answer to its
\* model request.
summarize(answer) ==
    IF answer.exc # "none"
    THEN ModelFailure(answer.exc)
    ELSE [raised |-> FALSE, text |-> output_text(answer.output)]

\* A mutant of main_steps: the searches run before the feeds are read.
main_steps_search_first ==
    <<"validate_google_credentials", "validate_openai_credentials",
      "_collect_google", "_collect_feeds", "_collect_scrapes",
      "_deduplicate", "summarize">>

\* The statements of main, in their order.
main_steps ==
    <<"validate_google_credentials", "validate_openai_credentials",
      "_collect_feeds", "_collect_google", "_collect_scrapes",
      "_deduplicate", "summarize">>

\* The statement main stands at when step is done: "return" after the last.
StepAfter(step) ==
    LET k == CHOOSE j \in 1..Len(main_steps) : main_steps[j] = step
    IN  IF k = Len(main_steps) THEN "return" ELSE main_steps[k + 1]

\* What the model answers to a request without tools: the request raises,
\* or a response of one message.
ModelExceptions ==
    {"AuthenticationError", "RateLimitError", "APIConnectionError",
     "BadRequestError"}

SummaryResponses ==
    {[exc |-> e, output |-> <<>>] : e \in ModelExceptions}
    \cup {[exc |-> "none",
           output |-> <<Message("assistant",
                                <<"Total relevant articles found: 1">>)>>]}

\* The worlds of a run of main.
Credentials ==
    [google_api_key : BOOLEAN, google_cse_id : BOOLEAN,
     openai_api_key : BOOLEAN]

MainFeedWorlds ==
    {[u \in FeedFetchable |-> IF u = "https://f1/rss" THEN a ELSE b] :
        a \in {ParsedFeed(TRUE, FALSE, 0, <<>>),
               ParsedFeed(FALSE, TRUE, 200, <<entryHit>>),
               ParsedFeed(FALSE, TRUE, 200, <<entryRaises, entrySplitHit>>),
               ParsedFeed(FALSE, TRUE, 404, <<entryHit>>)},
        b \in {ParsedFeed(FALSE, TRUE, 200, <<>>),
               ParsedFeed(FALSE, FALSE, 0, <<entrySplitHit, entryNoRegion>>)}}

MainWebs ==
    {[u \in FetchableUrls |-> IF u = "https://p1/" THEN a ELSE b] :
        a \in {Response("ConnectionError", 0, "", pageEmpty),
               Response("none", 200, "text/html; charset=utf-8", pageEmpty),
               Response("none", 200, "text/html; charset=utf-8", pageClean),
               Response("none", 200, "text/html; charset=utf-8", pageBadHref)},
        b \in {Response("none", 404, "text/html; charset=utf-8", pageEmpty),
               Response("none", 200, "text/html; charset=utf-8", pageClean),
               Response("none", 200, "text/html; charset=utf-8", pageShared)}}

MainProviders ==
    [DOMAIN IdleProvider ->
        {[raises |-> TRUE, message |-> "HttpError 403", items |-> <<>>],
         [raises |-> FALSE, message |-> "", items |-> <<>>],
         [raises |-> FALSE, message |-> "",
          items |-> <<itemHit, itemNoRegion, itemSnippetHit>>]}]

InitMain ==
    /\ creds \in Credentials
    /\ feeds \in MainFeedWorlds
    /\ web \in MainWebs
    /\ provider \in MainProviders
    /\ search_answer = IdleSearchAnswer
    /\ scrape_args = [given |-> FALSE, urls |-> <<>>]
    /\ scrape_out = NotCalled
    /\ feed_args = [given |-> FALSE, urls |-> <<>>]
    /\ feed_out = NotCalled
    /\ google_args = CHOOSE a \in GoogleArgs : ~a.has_query
    /\ google_out = NotCalled
    /\ MatchIdle
    /\ ExtractIdle
    /\ DedupIdle
    /\ pc = main_steps[1]
    /\ events = <<>>
    /\ input_list = <<>>
    /\ response = NoResponse
    /\ outcome = NoOutcome
    /\ turns = 0

\* sys.exit(1) after the line was printed.
Exit(printed) ==
    /\ pc' = "exit"
    /\ outcome' = Outcome(TRUE, FALSE, "SystemExit", 1, printed)

ValidateGoogleCredentials ==
    /\ pc = "validate_google_credentials"
    /\ IF validate_google_credentials.exits
       THEN Exit(validate_google_credentials.printed)
       ELSE pc' = StepAfter(pc) /\ UNCHANGED outcome
    /\ UNCHANGED <<extractVars, matchVars, dedupVars, scrapeVars, feedVars, googleVars,
                   creds, provider, events, input_list, response, turns>>

ValidateOpenAICredentials ==
    /\ pc = "validate_openai_credentials"
    /\ IF validate_openai_credentials.exits
       THEN Exit(validate_openai_credentials.printed)
       ELSE pc' = StepAfter(pc) /\ UNCHANGED outcome
    /\ UNCHANGED <<extractVars, matchVars, dedupVars, scrapeVars, feedVars, googleVars,
                   creds, provider, events, input_list, response, turns>>

\* all_rows.extend(_collect_feeds())
CollectFeeds ==
    /\ pc = "_collect_feeds"
    /\ feed_args' = [given |-> FALSE, urls |-> <<>>]
    /\ feed_out' = _collect_feeds.out
    /\ all_rows' = all_rows \o _collect_feeds.rows
    /\ events' = events \o _collect_feeds.events
    /\ pc' = StepAfter(pc)
    /\ UNCHANGED <<extractVars, matchVars, unique_rows, scrapeVars, feeds, googleVars,
                   creds, provider, input_list, response, outcome, turns>>

\* all_rows.extend(_collect_google())
CollectGoogle ==
    /\ pc = "_collect_google"
    /\ all_rows' = all_rows \o _collect_google.rows
    /\ events' = events \o _collect_google.events
    /\ pc' = StepAfter(pc)
    /\ UNCHANGED <<extractVars, matchVars, unique_rows, scrapeVars, feedVars, googleVars,
                   creds, provider, input_list, response, outcome, turns>>

\* all_rows.extend(_collect_scrapes()); an exception leaves main, and the
\* handler under __main__ prints it and ends the process with status 1.
CollectScrapes ==
    /\ pc = "_collect_scrapes"
    /\ scrape_args' = [given |-> FALSE, urls |-> <<>>]
    /\ scrape_out' = _collect_scrapes.out
    /\ events' = events \o _collect_scrapes.events
    /\ IF _collect_scrapes.out.raised
       THEN /\ pc' = "exit"
            /\ outcome' = Outcome(TRUE, TRUE, _collect_scrapes.out.exc, 1,
                                  <<"Error: ", _collect_scrapes.out.exc>>)
            /\ UNCHANGED all_rows
       ELSE /\ pc' = StepAfter(pc)
            /\ all_rows' = all_rows \o _collect_scrapes.rows
            /\ UNCHANGED outcome
    /\ UNCHANGED <<extractVars, matchVars, unique_rows, web, feedVars, googleVars,
                   creds, provider, input_list, response, turns>>

\* unique_rows = _deduplicate(all_rows), and the CSV file is written.
Deduplicate ==
    /\ pc = "_deduplicate"
    /\ unique_rows' = [called |-> TRUE, ret |-> _deduplicate(all_rows)]
    /\ pc' = StepAfter(pc)
    /\ UNCHANGED <<extractVars, matchVars, all_rows, scrapeVars, feedVars, googleVars,
                   creds, provider, events, input_list, response, outcome,
                   turns>>

\* The CSV file is read back, ContentAgent() is built (it validates the
\* OpenAI key once more), summarize is called and its answer is printed.
Summarize ==
    /\ pc = "summarize"
    /\ IF validate_openai_credentials.exits
       THEN /\ Exit(validate_openai_credentials.printed)
            /\ UNCHANGED <<events, input_list, response>>
       ELSE \E answer \in SummaryResponses :
                /\ input_list' =
                       <<Message("user", csv_text(unique_rows.ret))>>
                /\ events' = Append(events,
                                    Event("responses.create", "summarize"))
                /\ response' = answer
                /\ IF summarize(answer).raised
                   THEN /\ pc' = "exit"
                        /\ outcome' = Outcome(TRUE, TRUE, answer.exc, 1,
                                              <<"Error: ", answer.exc>>)
                   ELSE /\ pc' = StepAfter(pc)
                        /\ outcome' = Outcome(TRUE, FALSE, "", 0,
                                              summarize(answer).text)
    /\ UNCHANGED <<extractVars, matchVars, dedupVars, scrapeVars, feedVars, googleVars,
                   creds, provider, turns>>

NextMain ==
    \/ ValidateGoogleCredentials
    \/ ValidateOpenAICredentials
    \/ CollectFeeds
    \/ CollectGoogle
    \/ CollectScrapes
    \/ Deduplicate
    \/ Summarize

SpecMain == InitMain /\ [][NextMain]_vars

----------------------------------------------------------------------------
(* agent.py: ContentAgent, its tool-calling loop run and summarize.        *)

\* A mutant of TOOL_REGISTRY: the scraper is registered too.
TOOL_REGISTRY_with_scraper == <<"google_search", "read_feeds", "scrape_pages">>

\* tools.TOOL_REGISTRY: the names of the registered tools.
TOOL_REGISTRY == <<"google_search", "read_feeds">>

\* self._tools_by_name, built by __init__: the names it has a tool for.
_tools_by_name == {TOOL_REGISTRY[k] : k \in 1..Len(TOOL_REGISTRY)}

\* A function_call item of a response: json tells what json.loads makes
\* of call.arguments ("malformed": it raises; "array": a list; "object":
\* the dict kwargs).
FunctionCall(name, call_id, json, kwargs) ==
    Item("function_call", "", <<>>, name, call_id,
         [json |-> json, kwargs |-> kwargs], [kind |-> "none"])

\* {"type": "function_call_output", "call_id": ..., "output": result}
FunctionCallOutput(call_id, output) ==
    Item("function_call_output", "", <<>>, "", call_id,
         [json |-> "none", kwargs |-> EmptyKwargs], output)

\* A mutant of function_calls: no item is taken for a function call.
function_calls_none(output) == SelectSeq(output, LAMBDA item : FALSE)

\* [item for item in response.output if item.type == "function_call"]
function_calls(output) ==
    SelectSeq(output, LAMBDA item : item.type = "function_call")

\* A mutant of ToolExecute: an exception of json.loads or of execute is
\* caught and made the result of the call.
ToolExecuteAbsorbs(name, arguments) ==
    IF arguments.json # "object"
       \/ (name = "google_search" /\ ~arguments.kwargs.has_query)
    THEN [raised |-> FALSE, exc |-> "",
          output |-> [kind |-> "error", error |-> <<"Error: ", name>>],
          events |-> <<>>]
    ELSE CASE name = "google_search" ->
                  LET out == GoogleExecuteResult(arguments.kwargs,
                                                 search_answer)
                  IN  [raised |-> FALSE, exc |-> "",
                       output |-> [kind |-> "result", tool |-> name,
                                   value |-> out],
                       events |-> <<Event("execute", name),
                                    Event("cse.list", out.request.q)>>]
           [] name = "read_feeds" ->
                  LET out == FeedExecuteResult(arguments.kwargs)
                  IN  [raised |-> FALSE, exc |-> "",
                       output |-> [kind |-> "result", tool |-> name,
                                   value |-> out],
                       events |-> <<Event("execute", name)>>
                                  \o [k \in 1..Len(out.fetched) |->
                                         Event("feedparser.parse",
                                               out.fetched[k])]]

\* args = json.loads(call.arguments); result = tool.execute(**args), for
\* the tool registered under name: the exception that leaves it, or the
\* result, and the operations issued.
ToolExecute(name, arguments) ==
    IF arguments.json = "malformed"
    THEN [raised |-> TRUE, exc |-> "JSONDecodeError",
          output |-> [kind |-> "none"], events |-> <<>>]
    ELSE IF arguments.json # "object"
    THEN [raised |-> TRUE, exc |-> "TypeError",
          output |-> [kind |-> "none"], events |-> <<>>]
    ELSE CASE name = "google_search" ->
                  LET out == GoogleExecuteResult(arguments.kwargs,
                                                 search_answer)
                  IN  [raised |-> out.raised,
                       exc |-> IF out.raised THEN "KeyError" ELSE "",
                       output |-> [kind |-> "result", tool |-> name,
                                   value |-> out],
                       events |-> <<Event("execute", name)>>
                                  \o (IF out.raised
                                      THEN <<>>
                                      ELSE <<Event("cse.list",
                                                   out.request.q)>>)]
           [] name = "read_feeds" ->
                  LET out == FeedExecuteResult(arguments.kwargs)
                  IN  [raised |-> FALSE, exc |-> "",
                       output |-> [kind |-> "result", tool |-> name,
                                   value |-> out],
                       events |-> <<Event("execute", name)>>
                                  \o [k \in 1..Len(out.fetched) |->
                                         Event("feedparser.parse",
                                               out.fetched[k])]]
           [] name = "scrape_pages" ->
                  LET out == ScrapeExecuteResult([given |-> FALSE,
                                                  urls |-> <<>>])
                      requests == ScrapeRequests(SCRAPE_URLS)
                  IN  [raised |-> out.raised, exc |-> out.exc,
                       output |-> [kind |-> "result", tool |-> name,
                                   value |-> out],
                       events |-> <<Event("execute", name)>>
                                  \o [k \in 1..Len(requests) |->
                                         Event("requests.get", requests[k])]]

\* A mutant of ExecuteCalls: a call whose name has no tool is passed over
\* without an output.
RECURSIVE ExecuteCallsSkipUnknown(_, _, _)
ExecuteCallsSkipUnknown(calls, inputs, issued) ==
    IF calls = <<>>
    THEN [raised |-> FALSE, exc |-> "", input_list |-> inputs,
          events |-> issued]
    ELSE LET call == Head(calls)
             done == ToolExecute(call.name, call.arguments)
         IN  IF call.name \notin _tools_by_name
             THEN ExecuteCallsSkipUnknown(Tail(calls), inputs, issued)
             ELSE IF done.raised
             THEN [raised |-> TRUE, exc |-> done.exc, input_list |-> inputs,
                   events |-> issued \o done.events]
             ELSE ExecuteCallsSkipUnknown(Tail(calls),
                      Append(inputs,
                             FunctionCallOutput(call.call_id, done.output)),
                      issued \o done.events)

\* The loop of run over the function calls still to execute: a name
\* without a tool gets the "Unknown tool" error for a result; an exception
\* of json.loads or of execute leaves the loop and run.
RECURSIVE ExecuteCalls(_, _, _)
ExecuteCalls(calls, inputs, issued) ==
    IF calls = <<>>
    THEN [raised |-> FALSE, exc |-> "", input_list |-> inputs,
          events |-> issued]
    ELSE LET call == Head(calls)
             done == ToolExecute(call.name, call.arguments)
         IN  IF call.name \notin _tools_by_name
             THEN ExecuteCalls(Tail(calls),
                      Append(inputs,
                             FunctionCallOutput(call.call_id,
                                 [kind |-> "error",
                                  error |-> <<"Unknown tool: ", call.name>>])),
                      issued)
             ELSE IF done.raised
             THEN [raised |-> TRUE, exc |-> done.exc, input_list |-> inputs,
                   events |-> issued \o done.events]
             ELSE ExecuteCalls(Tail(calls),
                      Append(inputs,
                             FunctionCallOutput(call.call_id, done.output)),
                      issued \o done.events)

\* The function calls a response of the model may hold.
ModelCalls ==
    {FunctionCall(n, "c1", "object", EmptyKwargs) :
        n \in {"google_search", "read_feeds", "scrape_pages", "delete_rows"}}
    \cup {FunctionCall("google_search", "c1", "object",
                       [EmptyKwargs EXCEPT !.has_query = TRUE,
                                           !.query = "iptv"]),
          FunctionCall("read_feeds", "c1", "object",
                       [EmptyKwargs EXCEPT !.given = TRUE,
                                           !.urls = <<"f4/rss",
                                                      "https://f1/rss">>]),
          FunctionCall("read_feeds", "c1", "malformed", EmptyKwargs),
          FunctionCall("google_search", "c1", "array", EmptyKwargs),
          FunctionCall("delete_rows", "c1", "malformed", EmptyKwargs)}

\* What the model answers to a request of run: the request raises, or a
\* response whose output holds a message, nothing, one function call, or
\* (after a message or another call) the function call c2; or a call of
\* the feed reader and then a search without query.
ModelResponses ==
    LET c2 == FunctionCall("google_search", "c2", "object",
                           [EmptyKwargs EXCEPT !.has_query = TRUE,
                                               !.query = "VIARK"])
        said == Message("assistant", <<"Total relevant articles found: 0">>)
    IN  {[exc |-> e, output |-> <<>>] : e \in ModelExceptions}
        \cup {[exc |-> "none", output |-> o] : o \in {<<>>, <<said>>}}
        \cup {[exc |-> "none", output |-> <<c>>] : c \in ModelCalls}
        \cup {[exc |-> "none", output |-> <<said, c2>>]}
        \cup {[exc |-> "none", output |-> <<c, c2>>] :
                  c \in {FunctionCall("read_feeds", "c1", "object",
                                      EmptyKwargs),
                         FunctionCall("delete_rows", "c1", "object",
                                      EmptyKwargs),
                         FunctionCall("read_feeds", "c1", "malformed",
                                      EmptyKwargs)}}
        \cup {[exc |-> "none",
               output |-> <<FunctionCall("read_feeds", "c1", "object",
                                         EmptyKwargs),
                            FunctionCall("google_search", "c2", "object",
                                         EmptyKwargs)>>]}

\* A ContentAgent has been built (so the OpenAI key is there) and none of
\* its methods has been called; the world the tools see is one of a feed
\* with an article and a search that fails or gives a hit.
InitAgent ==
    /\ creds \in {c \in Credentials : c.openai_api_key}
    /\ feeds \in {w \in MainFeedWorlds :
                      /\ w["https://f1/rss"].status = 200
                      /\ w["https://f1/rss"].entries = <<entryHit>>
                      /\ w["https://f2/rss"].entries = <<>>}
    /\ search_answer \in
           {[raises |-> TRUE, message |-> "HttpError 403", items |-> <<>>],
            [raises |-> FALSE, message |-> "",
             items |-> <<itemHit, itemNoRegion>>]}
    /\ web = IdleWeb
    /\ provider = IdleProvider
    /\ scrape_args = [given |-> FALSE, urls |-> <<>>]
    /\ scrape_out = NotCalled
    /\ feed_args = [given |-> FALSE, urls |-> <<>>]
    /\ feed_out = NotCalled
    /\ google_args = CHOOSE a \in GoogleArgs : ~a.has_query
    /\ google_out = NotCalled
    /\ MatchIdle
    /\ ExtractIdle
    /\ DedupIdle
    /\ pc = "agent"
    /\ events = <<>>
    /\ input_list = <<>>
    /\ response = NoResponse
    /\ outcome = NoOutcome
    /\ turns = 0

\* run(user_prompt, instructions) is called: the input list is made.
CallRun ==
    /\ pc = "agent"
    /\ input_list' = <<Message("user", <<"user_prompt">>)>>
    /\ pc' = "create"
    /\ UNCHANGED <<extractVars, matchVars, dedupVars, scrapeVars, feedVars, googleVars,
                   creds, provider, events, response, outcome, turns>>

\* One call of summarize(text, instructions).
CallSummarize ==
    /\ pc = "agent"
    /\ \E answer \in SummaryResponses :
           /\ input_list' = <<Message("user", <<"text">>)>>
           /\ events' = Append(events, Event("responses.create", "summarize"))
           /\ response' = answer
           /\ outcome' = Outcome(TRUE, summarize(answer).raised,
                                 IF summarize(answer).raised
                                 THEN answer.exc ELSE "",
                                 0, summarize(answer).text)
           /\ pc' = "summarized"
    /\ UNCHANGED <<extractVars, matchVars, dedupVars, scrapeVars, feedVars, googleVars,
                   creds, provider, turns>>

\* run, from the head of its loop to the return or to the tool calls: the
\* model request, the except clauses, input_list += response.output, and
\* the return of the text when the output holds no function call.
CreateResponse ==
    /\ pc = "create"
    /\ turns < MaxTurns
    /\ turns' = turns + 1
    /\ events' = Append(events, Event("responses.create", "run"))
    /\ \E answer \in ModelResponses :
           /\ response' = answer
           /\ IF answer.exc # "none"
              THEN /\ outcome' = Outcome(TRUE, ModelFailure(answer.exc).raised,
                                         IF ModelFailure(answer.exc).raised
                                         THEN answer.exc ELSE "",
                                         0, ModelFailure(answer.exc).text)
                   /\ pc' = IF ModelFailure(answer.exc).raised
                            THEN "raised" ELSE "returned"
                   /\ UNCHANGED input_list
              ELSE /\ input_list' = input_list \o answer.output
                   /\ IF function_calls(answer.output) = <<>>
                      THEN /\ outcome' = Outcome(TRUE, FALSE, "", 0,
                                                 output_text(answer.output))
                           /\ pc' = "returned"
                      ELSE /\ pc' = "tools"
                           /\ UNCHANGED outcome
    /\ UNCHANGED <<extractVars, matchVars, dedupVars, scrapeVars, feedVars, googleVars,
                   creds, provider>>

\* run, the loop over the function calls of the response, and back to the
\* head of the while loop; an exception leaves run.
RunToolCalls ==
    /\ pc = "tools"
    /\ LET done == ExecuteCalls(function_calls(response.output),
                                input_list, events)
       IN  /\ input_list' = done.input_list
           /\ events' = done.events
           /\ IF done.raised
              THEN /\ pc' = "raised"
                   /\ outcome' = Outcome(TRUE, TRUE, done.exc, 0, <<>>)
              ELSE /\ pc' = "create"
                   /\ UNCHANGED outcome
    /\ UNCHANGED <<extractVars, matchVars, dedupVars, scrapeVars, feedVars, googleVars,
                   creds, provider, response, turns>>

NextAgent ==
    \/ CallRun
    \/ CallSummarize
    \/ CreateResponse
    \/ RunToolCalls

SpecAgent == InitAgent /\ [][NextAgent]_vars

----------------------------------------------------------------------------
(* What the claims speak of, stated without the definitions above.         *)

\* Two characters are the same letter, whatever their case.
SameLetter(c, d) ==
    \/ c = d
    \/ {c, d} \in {{"v", "V"}, {"m", "M"}, {"p", "P"}, {"i", "I"},
                    {"k", "K"}}

\* kw occurs in t as a case-insensitive substring.
OccursIn(kw, t) ==
    \E start \in 1..Len(t) :
        /\ start + Len(kw) - 1 <= Len(t)
        /\ \A j \in 1..Len(kw) : SameLetter(kw[j], t[start + j - 1])

\* The keywords of a list that occur in t, in the list's order.
RECURSIVE Occurring(_, _)
Occurring(keywords, t) ==
    IF keywords = <<>>
    THEN <<>>
    ELSE (IF OccursIn(Head(keywords), t) THEN <<Head(keywords)>> ELSE <<>>)
         \o Occurring(Tail(keywords), t)

SomeOccurs(keywords, t) ==
    \E k \in 1..Len(keywords) : OccursIn(keywords[k], t)

\* The elements of s at the indices in S, in the order of s.
Pick(s, S) ==
    LET F[k \in 0..Len(s)] ==
            IF k = 0 THEN <<>>
            ELSE IF k \in S THEN Append(F[k - 1], s[k]) ELSE F[k - 1]
    IN  F[Len(s)]

IsSubsequence(sub, s) == \E S \in SUBSET (1..Len(s)) : sub = Pick(s, S)

\* The rows of s whose URL is u, in the order of s.
WithUrl(s, u) == SelectSeq(s, LAMBDA row : row.url = u)

\* The first row of s whose URL is u.
FirstWithUrl(s, u) ==
    s[CHOOSE k \in 1..Len(s) :
          /\ s[k].url = u
          /\ \A j \in 1..(k - 1) : s[j].url # u]

----------------------------------------------------------------------------
(* Claims about matches_keywords (under SpecMatch).                        *)

\* C1: region gate. Whenever no region keyword occurs in the text as a
\* case-insensitive substring, matches_keywords returns passes = false and
\* an empty matched list, however many primary or secondary keywords occur.
C1_RegionGate ==
    (match_result.called /\ ~SomeOccurs(REGION_KEYWORDS, text))
        => match_result.ret = <<FALSE, <<>>>>

\* C1's case: a text with primary and secondary keywords and no region
\* keyword has been filtered.
C1_Witness ==
    /\ match_result.called
    /\ ~SomeOccurs(REGION_KEYWORDS, text)
    /\ SomeOccurs(PRIMARY_KEYWORDS, text)
    /\ SomeOccurs(SECONDARY_KEYWORDS, text)

\* C2: a text with a region keyword but no primary and no secondary keyword
\* fails, with an empty matched list.
C2_RegionAlone ==
    (/\ match_result.called
     /\ SomeOccurs(REGION_KEYWORDS, text)
     /\ ~SomeOccurs(PRIMARY_KEYWORDS, text)
     /\ ~SomeOccurs(SECONDARY_KEYWORDS, text))
        => match_result.ret = <<FALSE, <<>>>>

\* C2's case: a text with a region keyword only has been filtered.
C2_Witness ==
    /\ match_result.called
    /\ SomeOccurs(REGION_KEYWORDS, text)
    /\ ~SomeOccurs(PRIMARY_KEYWORDS, text)
    /\ ~SomeOccurs(SECONDARY_KEYWORDS, text)

\* C3: a text with a region keyword and a primary keyword passes, and every
\* primary keyword that occurs is listed in matched at an earlier position
\* than every region keyword that occurs.
C3_PrimaryBeforeRegion ==
    match_result.called =>
        \A p \in 1..Len(PRIMARY_KEYWORDS), r \in 1..Len(REGION_KEYWORDS) :
            (/\ OccursIn(PRIMARY_KEYWORDS[p], text)
             /\ OccursIn(REGION_KEYWORDS[r], text))
                => /\ match_result.ret[1] = TRUE
                   /\ \E a, b \in 1..Len(match_result.ret[2]) :
                          /\ a < b
                          /\ match_result.ret[2][a] = PRIMARY_KEYWORDS[p]
                          /\ match_result.ret[2][b] = REGION_KEYWORDS[r]

\* C3's case: a text with a primary keyword and a different region keyword,
\* in upper case, has been filtered.
C3_Witness ==
    /\ match_result.called
    /\ OccursIn(kwPirateria, text)
    /\ OccursIn(kwMexico, text)
    /\ ~OccursIn(kwVIARK, text)
    /\ \E k \in 1..Len(text) : text[k] \in UpperLetters

\* C4: when matches_keywords passes, matched is exactly the primary hits,
\* then the secondary hits, then the region hits, each being the keywords
\* of that list that occur in the text (case-insensitively), in list order.
C4_MatchedExact ==
    (match_result.called /\ match_result.ret[1] = TRUE)
        => match_result.ret[2] =
               Occurring(PRIMARY_KEYWORDS, text)
               \o Occurring(SECONDARY_KEYWORDS, text)
               \o Occurring(REGION_KEYWORDS, text)

\* C4's case: a passing text with hits in all three lists, some of them
\* only through case folding.
C4_Witness ==
    /\ match_result.called
    /\ match_result.ret[1] = TRUE
    /\ Len(Occurring(PRIMARY_KEYWORDS, text)) >= 2
    /\ Len(Occurring(SECONDARY_KEYWORDS, text)) >= 1
    /\ Len(Occurring(REGION_KEYWORDS, text)) >= 2
    /\ text # Lower(text)

----------------------------------------------------------------------------
(* Claims about _deduplicate (under SpecDedup).                            *)

\* C6: for every non-empty URL of the input, _deduplicate keeps exactly the
\* first row carrying it and drops the later ones; rows with an empty URL
\* are never merged: all of them are kept.
C6_FirstOccurrenceWins ==
    unique_rows.called =>
        /\ \A k \in 1..Len(all_rows) :
               all_rows[k].url # "" =>
                   WithUrl(unique_rows.ret, all_rows[k].url)
                       = <<FirstWithUrl(all_rows, all_rows[k].url)>>
        /\ WithUrl(unique_rows.ret, "") = WithUrl(all_rows, "")

\* C6's case: two rows share a non-empty URL and differ in title, and two
\* rows have an empty URL.
C6_Witness ==
    /\ unique_rows.called
    /\ \E j, k \in 1..Len(all_rows) :
           /\ j < k
           /\ all_rows[j].url = all_rows[k].url
           /\ all_rows[j].url # ""
           /\ all_rows[j].title # all_rows[k].title
    /\ Len(WithUrl(all_rows, "")) >= 2

\* C7: the output of _deduplicate is a subsequence of its input: the kept
\* rows are rows of the input, unaltered and in the input's order.
C7_OrderPreserving ==
    unique_rows.called => IsSubsequence(unique_rows.ret, all_rows)

\* C7's case: a row was dropped and rows with different URLs were kept.
C7_Witness ==
    /\ unique_rows.called
    /\ Len(unique_rows.ret) < Len(all_rows)
    /\ \E j, k \in 1..Len(unique_rows.ret) :
           unique_rows.ret[j].url # unique_rows.ret[k].url

----------------------------------------------------------------------------
(* Claims about the scrape adapter (under SpecTools).                      *)

\* The URLs the call of execute went through.
ScrapeInputUrls == ScrapeEffectiveUrls(scrape_args)

\* execute returned its JSON (no exception left it).
ScrapeReturned == scrape_out.called /\ ~scrape_out.raised

\* The reasons with which url is listed in skipped.
SkipReasons(url) ==
    {scrape_out.skipped[k].reason :
        k \in {j \in 1..Len(scrape_out.skipped) :
                   scrape_out.skipped[j].url = url}}

\* The number of entries of results that come from the page url.
EntriesFrom(url) ==
    Cardinality({k \in 1..Len(scrape_out.results) :
                     scrape_out.results[k].source_page = url})

\* url was fetched by the call and answered with a response (no exception).
Answered(url) ==
    /\ \E k \in 1..Len(ScrapeInputUrls) : ScrapeInputUrls[k] = url
    /\ url \in FetchableUrls
    /\ web[url].exc = "none"

\* C8: status classification, as the claim states it. A page answered with
\* 401, 403 or 407 is skipped with an authentication/access-denied reason;
\* with 429 or 503, with a rate-limit/anti-bot reason; with any other
\* non-2xx status, with the reason "HTTP <code>"; and in all these cases
\* the page contributes no entry to results.
C8_StatusClassification ==
    ScrapeReturned =>
        \A url \in FetchableUrls :
            LET code == web[url].status_code
            IN  (Answered(url) /\ ~(200 <= code /\ code <= 299)) =>
                    /\ EntriesFrom(url) = 0
                    /\ code \in {401, 403, 407} =>
                           SkipReasons(url) = {Reason(
                               "HTTP {status_code} - authentication or access denied",
                               code, "")}
                    /\ code \in {429, 503} =>
                           SkipReasons(url) = {Reason(
                               "HTTP {status_code} - rate-limited or anti-bot challenge",
                               code, "")}
                    /\ code \notin {401, 403, 407, 429, 503} =>
                           SkipReasons(url) =
                               {Reason("HTTP {status_code}", code, "")}

\* C9: a page answered with status 200 and an HTML content type is skipped
\* with the CAPTCHA reason, and contributes no entry, when a match of the
\* anti-bot patterns lies within its first 5000 characters; when none
\* does (matches beyond the first 5000 characters only, or none at all)
\* the page is not skipped.
C9_CaptchaSlice ==
    ScrapeReturned =>
        \A url \in FetchableUrls :
            (/\ Answered(url)
             /\ web[url].status_code = 200
             /\ web[url].content_type \in
                    {"text/html; charset=utf-8", "application/xhtml+xml"})
                => IF \E m \in web[url].html.captcha :
                          m.start + m.length <= 5000
                   THEN /\ SkipReasons(url) = {Reason(
                               "Page contains a CAPTCHA or anti-bot challenge",
                               0, "")}
                        /\ EntriesFrom(url) = 0
                   ELSE SkipReasons(url) = {}

\* C9's case: in one call, a page with a match inside the first 5000
\* characters was skipped, and a page whose matches all lie beyond them
\* was scraped and contributed an entry.
C9_Witness ==
    /\ ScrapeReturned
    /\ \E u1, u2 \in FetchableUrls :
           /\ Answered(u1) /\ Answered(u2)
           /\ web[u1].status_code = 200 /\ web[u2].status_code = 200
           /\ web[u1].html = pageCaptchaEdge
           /\ web[u2].html = pageCaptchaLate
           /\ SkipReasons(u1) # {}
           /\ SkipReasons(u2) = {}
           /\ EntriesFrom(u2) > 0

\* C10: as the claim states it. execute always gives its output, with a
\* results list and a skipped list, and every input URL that was not
\* scraped is listed in skipped with a reason.
C10_NothingDropped ==
    scrape_out.called =>
        /\ ~scrape_out.raised
        /\ \A k \in 1..Len(ScrapeInputUrls) :
               \/ \E j \in 1..Len(scrape_out.scraped) :
                      scrape_out.scraped[j] = ScrapeInputUrls[k]
               \/ SkipReasons(ScrapeInputUrls[k]) # {}

----------------------------------------------------------------------------
(* Claim about the three adapters (under SpecTools).                       *)

\* t passes the keyword filter: a region keyword occurs in it, and a
\* primary or a secondary keyword does.
PassesFilter(t) ==
    /\ SomeOccurs(REGION_KEYWORDS, t)
    /\ SomeOccurs(PRIMARY_KEYWORDS, t) \/ SomeOccurs(SECONDARY_KEYWORDS, t)

\* The visible texts around an anchor: its own and those of its parents.
TextsAround(anchor) ==
    {anchor.text} \cup {anchor.parents[k].text : k \in 1..Len(anchor.parents)}

\* C5: every candidate an adapter emits passed the keyword filter on its
\* own text (title and summary of a feed article, title and snippet of a
\* search hit, the context text of a scraped link, of which the entry
\* keeps the first 500 characters) and carries a matched_keywords list
\* that is not empty.
C5_EmittedPassedFilter ==
    /\ feed_out.called =>
           \A k \in 1..Len(feed_out.ret) :
               /\ PassesFilter(feed_out.ret[k].title \o <<" ">>
                               \o feed_out.ret[k].summary)
               /\ feed_out.ret[k].matched_keywords # <<>>
    /\ google_out.called =>
           \A k \in 1..Len(google_out.results) :
               /\ PassesFilter(google_out.results[k].title \o <<" ">>
                               \o google_out.results[k].snippet)
               /\ google_out.results[k].matched_keywords # <<>>
    /\ scrape_out.called =>
           \A k \in 1..Len(scrape_out.results) :
               LET r == scrape_out.results[k]
                   anchors == web[r.source_page].html.anchors
               IN  /\ \E j \in 1..Len(anchors) :
                          \E t \in TextsAround(anchors[j]) :
                              /\ PassesFilter(t)
                              /\ r.text = SubSeq(t, 1, IF Len(t) < 500
                                                       THEN Len(t) ELSE 500)
                   /\ r.matched_keywords # <<>>

\* C5's case: the feed reader fetched a feed with an entry that passes
\* the filter and one that does not, and emitted an article.
C5_Witness ==
    /\ feed_out.called
    /\ Len(feed_out.ret) >= 1
    /\ \E u \in FeedFetchable :
           /\ \E k \in 1..Len(FeedEffectiveUrls(feed_args)) :
                  FeedEffectiveUrls(feed_args)[k] = u
           /\ feeds[u].has_status /\ feeds[u].status = 200
           /\ \E j, k \in 1..Len(feeds[u].entries) :
                  /\ ~feeds[u].entries[j].raises
                  /\ PassesFilter(feeds[u].entries[j].title \o <<" ">>
                                  \o feeds[u].entries[j].summary)
                  /\ ~feeds[u].entries[k].raises
                  /\ ~PassesFilter(feeds[u].entries[k].title \o <<" ">>
                                   \o feeds[u].entries[k].summary)

----------------------------------------------------------------------------
(* Claims about the search adapter and the feed adapter (under SpecTools). *)

\* C12: when the search provider call fails, GoogleSearchTool.execute does
\* not raise: it returns the JSON object with the key "error", carrying
\* the provider's message; and a call that succeeds returns a JSON array
\* (possibly empty), never that object, so the two can be told apart.
C12_ErrorMarker ==
    (google_out.called /\ google_args.has_query) =>
        /\ ~google_out.raised
        /\ search_answer.raises =>
               /\ google_out.is_error
               /\ google_out.error = search_answer.message
        /\ ~search_answer.raises => ~google_out.is_error

\* C12's case: the provider call of an executed search failed.
C12_Witness ==
    /\ google_out.called
    /\ google_args.has_query
    /\ search_answer.raises
    /\ google_out.request.q = google_args.query

\* The feed URLs of the model that have a scheme and a host.
HasSchemeAndHost(url) ==
    url \in {"https://f1/rss", "https://f2/rss", "ftp://f3/rss"}

\* The feed URLs of the model that lack a scheme or lack a host.
LacksSchemeOrHost(url) == url \in {"f4/rss", "https:///f5"}

\* The URLs the call of execute went through.
FeedInputUrls == FeedEffectiveUrls(feed_args)

\* The number of times url stands in the list urls.
Count(url, urls) == Len(SelectSeq(urls, LAMBDA u : u = url))

\* s repeated n times.
RECURSIVE Repeat(_, _)
Repeat(s, n) == IF n = 0 THEN <<>> ELSE s \o Repeat(s, n - 1)

\* The title, link and summary of the returned articles whose source is
\* url, in the order of the output.
ArticlesFrom(url) ==
    LET from == SelectSeq(feed_out.ret, LAMBDA a : a.source = url)
    IN  [k \in 1..Len(from) |->
            <<from[k].title, from[k].url, from[k].summary>>]

\* The title, link and summary of the entries of the feed at url that are
\* built without an exception and pass the keyword filter, in feed order.
GoodEntries(url) ==
    LET good == SelectSeq(feeds[url].entries,
                    LAMBDA e : /\ ~e.raises
                               /\ PassesFilter(e.title \o <<" ">> \o e.summary))
    IN  [k \in 1..Len(good) |-> <<good[k].title, good[k].link, good[k].summary>>]

\* The feed at url fails: feedparser.parse raises, or the feed reports a
\* status that is not a success, or it has no entries.
FeedFails(url) ==
    \/ feeds[url].raises
    \/ feeds[url].has_status /\ ~(200 <= feeds[url].status /\ feeds[url].status <= 299)
    \/ feeds[url].entries = <<>>

\* C14: failure isolation. A feed of the call that raises while it is
\* fetched and parsed, reports a non-success status or has no entries
\* contributes no article; every other feed of the call is processed
\* all the same, and contributes, each time it is listed, its entries
\* that pass the filter, in order, without those that raised while they
\* were built: a raising entry drops neither the entries after it nor
\* the feeds after its feed.
C14_FailureIsolation ==
    feed_out.called =>
        \A url \in FeedFetchable :
            IF FeedFails(url)
            THEN ArticlesFrom(url) = <<>>
            ELSE ArticlesFrom(url) =
                     Repeat(GoodEntries(url), Count(url, FeedInputUrls))

\* C14's case: the call read a feed that fails and then a feed that does
\* not, or a feed in which an entry that raises stands before an entry
\* that is emitted.
C14_Witness ==
    /\ feed_out.called
    /\ \/ \E j, k \in 1..Len(FeedInputUrls) :
              /\ j < k
              /\ FeedInputUrls[j] \in FeedFetchable
              /\ FeedInputUrls[k] \in FeedFetchable
              /\ feeds[FeedInputUrls[j]].raises
              /\ ArticlesFrom(FeedInputUrls[k]) # <<>>
       \/ \E url \in FeedFetchable :
              /\ Count(url, FeedInputUrls) = 1
              /\ Len(feeds[url].entries) = 2
              /\ feeds[url].entries[1].raises
              /\ ArticlesFrom(url) = GoodEntries(url)
              /\ GoodEntries(url) # <<>>

\* C15: a feed URL that lacks a scheme or a host is dropped in silence:
\* feedparser.parse is never called on it and no element of the output
\* names it (the output is the array of articles alone, each from a feed
\* that was fetched); and the URLs of the call that have a scheme and a
\* host are all fetched, each as often as it is listed, in list order.
C15_InvalidFeedUrlDropped ==
    feed_out.called =>
        /\ \A k \in 1..Len(feed_out.fetched) :
               ~LacksSchemeOrHost(feed_out.fetched[k])
        /\ \A k \in 1..Len(feed_out.ret) :
               /\ ~LacksSchemeOrHost(feed_out.ret[k].source)
               /\ \E j \in 1..Len(feed_out.fetched) :
                      feed_out.fetched[j] = feed_out.ret[k].source
        /\ SelectSeq(feed_out.fetched, HasSchemeAndHost)
               = SelectSeq(FeedInputUrls, HasSchemeAndHost)

\* C15's case: the list of the call holds a URL without scheme or host
\* before a valid URL, and the feed of the valid URL gave an article.
C15_Witness ==
    /\ feed_out.called
    /\ Len(FeedInputUrls) = 2
    /\ LacksSchemeOrHost(FeedInputUrls[1])
    /\ HasSchemeAndHost(FeedInputUrls[2])
    /\ ArticlesFrom(FeedInputUrls[2]) # <<>>

----------------------------------------------------------------------------
(* Claims about the deterministic run (under SpecMain).                    *)

\* The elements of a sequence.
Elems(s) == {s[k] : k \in 1..Len(s)}

\* The elements of a text joined with ", ".
RECURSIVE SplitJoined(_)
SplitJoined(t) ==
    IF \E k \in 1..(Len(t) - 1) : t[k] = "," /\ t[k + 1] = " "
    THEN LET k == CHOOSE j \in 1..(Len(t) - 1) :
                      /\ t[j] = "," /\ t[j + 1] = " "
                      /\ \A i \in 1..(j - 1) : ~(t[i] = "," /\ t[i + 1] = " ")
         IN  {SubSeq(t, 1, k - 1)}
             \cup SplitJoined(SubSeq(t, k + 2, Len(t)))
    ELSE {t}

\* The only item any source provides is the single entry of the feed at
\* url: the feed is read with success and has one entry, every other
\* configured feed raises or is empty, every search fails or has no hit,
\* and every configured page fails to load or holds no link.
OnlyItemIsEntryOf(url) ==
    /\ ~feeds[url].raises
    /\ ~feeds[url].has_status \/ feeds[url].status = 200
    /\ Len(feeds[url].entries) = 1
    /\ ~feeds[url].entries[1].raises
    /\ \A other \in Elems(RSS_FEEDS) \ {url} :
           feeds[other].raises \/ feeds[other].entries = <<>>
    /\ \A q \in DOMAIN provider :
           provider[q].raises \/ provider[q].items = <<>>
    /\ \A page \in Elems(SCRAPE_URLS) :
           web[page].exc # "none" \/ web[page].html.anchors = <<>>

\* C11: end to end. When the only item any source provides is a single
\* feed entry whose title contains a region keyword and a primary
\* keyword, the de-duplicated list of the run holds exactly one row, the
\* row is tagged with the feed tool ("read_feeds"), and its joined
\* matched_keywords hold that primary and that region keyword.
C11_EndToEnd ==
    unique_rows.called =>
        \A url \in Elems(RSS_FEEDS) :
            \A r \in Elems(REGION_KEYWORDS), p \in Elems(PRIMARY_KEYWORDS) :
                (/\ OnlyItemIsEntryOf(url)
                 /\ OccursIn(r, feeds[url].entries[1].title)
                 /\ OccursIn(p, feeds[url].entries[1].title))
                => /\ Len(unique_rows.ret) = 1
                   /\ unique_rows.ret[1].tool = "read_feeds"
                   /\ unique_rows.ret[1].title = feeds[url].entries[1].title
                   /\ {r, p} \subseteq
                          SplitJoined(unique_rows.ret[1].matched_keywords)

\* C11's case: the run de-duplicated what it collected in a world whose
\* only item is one feed entry, with a region and a primary keyword in its
\* title that are not the same keyword.
C11_Witness ==
    /\ unique_rows.called
    /\ \E url \in Elems(RSS_FEEDS) :
           /\ OnlyItemIsEntryOf(url)
           /\ \E r \in Elems(REGION_KEYWORDS), p \in Elems(PRIMARY_KEYWORDS) :
                  /\ r # p
                  /\ OccursIn(r, feeds[url].entries[1].title)
                  /\ OccursIn(p, feeds[url].entries[1].title)

\* The query terms of the search requests issued so far, in their order.
SearchedTerms ==
    LET issued == SelectSeq(events, LAMBDA e : e.op = "cse.list")
    IN  [k \in 1..Len(issued) |-> issued[k].arg]

\* How often the adapter named tool was called so far.
Executed(tool) ==
    Len(SelectSeq(events, LAMBDA e : e = Event("execute", tool)))

\* The link, title and snippet of the rows collected from the search.
SearchRows ==
    LET rows == SelectSeq(all_rows, LAMBDA row : row.tool = "google_search")
    IN  [k \in 1..Len(rows) |-> <<rows[k].url, rows[k].title, rows[k].summary>>]

\* The link, title and snippet of the hits that pass the filter, of every
\* query of the list that succeeded, in query order.
RECURSIVE FilteredHits(_)
FilteredHits(queries) ==
    IF queries = <<>>
    THEN <<>>
    ELSE LET answer == provider[Head(queries)]
             hits == IF answer.raises
                     THEN <<>>
                     ELSE SelectSeq(answer.items,
                              LAMBDA i : PassesFilter(i.title \o <<" ">>
                                                      \o i.snippet))
         IN  [k \in 1..Len(hits) |->
                 <<hits[k].link, hits[k].title, hits[k].snippet>>]
             \o FilteredHits(Tail(queries))

\* C13: once the run has searched, the search adapter was called exactly
\* once for every configured query term, in list order, whichever of the
\* queries failed; and the rows collected from the search are the
\* filtered hits of every query that succeeded, in query order.
C13_EveryQueryOnce ==
    Executed("google_search") > 0 =>
        /\ SearchedTerms = GOOGLE_SEARCH_KEYWORDS
        /\ Executed("google_search") = Len(GOOGLE_SEARCH_KEYWORDS)
        /\ SearchRows = FilteredHits(GOOGLE_SEARCH_KEYWORDS)

\* C13's case: the first query failed, a later one succeeded with a hit
\* that passes the filter, and the run has searched.
C13_Witness ==
    /\ Executed("google_search") > 0
    /\ provider[GOOGLE_SEARCH_KEYWORDS[1]].raises
    /\ ~provider[GOOGLE_SEARCH_KEYWORDS[2]].raises
    /\ provider[GOOGLE_SEARCH_KEYWORDS[3]].raises
    /\ SearchRows # <<>>

\* A required credential is missing.
CredentialMissing ==
    ~creds.google_api_key \/ ~creds.google_cse_id \/ ~creds.openai_api_key

\* C16: when a required credential is missing, no adapter is called and
\* no network operation is issued, ever; the run is at its validation
\* statements or has ended, and it ends with a non-zero exit status.
C16_AbortBeforeNetwork ==
    CredentialMissing =>
        /\ events = <<>>
        /\ ~feed_out.called /\ ~scrape_out.called /\ ~unique_rows.called
        /\ all_rows = <<>>
        /\ \/ pc \in {"validate_google_credentials",
                      "validate_openai_credentials"}
           \/ outcome.done /\ outcome.exit_code # 0

\* C16's case: a run in which the OpenAI key alone is missing has ended.
C16_Witness ==
    /\ outcome.done
    /\ outcome.exit_code = 1
    /\ creds = [AllCredentials EXCEPT !.openai_api_key = FALSE]

\* The place of an event in the order feeds, search, scrape, summary.
Phase(e) ==
    CASE e.op = "feedparser.parse" \/ e = Event("execute", "read_feeds") -> 1
      [] e.op = "cse.list" \/ e = Event("execute", "google_search") -> 2
      [] e.op = "requests.get" \/ e = Event("execute", "scrape_pages") -> 3
      [] e.op = "responses.create" -> 4

\* The place of a row's tool in the same order.
ToolRank(tool) ==
    CASE tool = "read_feeds" -> 1
      [] tool = "google_search" -> 2
      [] tool = "scrape_pages" -> 3

\* Each of the three adapters has run: the feed reader and the scraper
\* once, the search once for every query term.
AllAdaptersRan ==
    /\ Executed("read_feeds") = 1
    /\ Executed("google_search") = Len(GOOGLE_SEARCH_KEYWORDS)
    /\ Executed("scrape_pages") = 1

\* C17: the run issues the operations of the feed adapter, then those of
\* the searches, then those of the scraper, then the model request, never
\* one of an earlier adapter after one of a later; the merged list holds
\* the feed rows, then the search rows, then the scrape rows; a run that
\* passes validation runs all three adapters whatever they give;
\* de-duplication takes place after all three have run, and the model
\* request is issued after de-duplication, on the de-duplicated rows.
C17_FixedOrder ==
    /\ \A j, k \in 1..Len(events) :
           j < k => Phase(events[j]) <= Phase(events[k])
    /\ \A j, k \in 1..Len(all_rows) :
           j < k => ToolRank(all_rows[j].tool) <= ToolRank(all_rows[k].tool)
    /\ Executed("google_search") > 0 => Executed("read_feeds") = 1
    /\ Executed("scrape_pages") > 0 => AllAdaptersRan
    /\ (outcome.done /\ ~CredentialMissing) => AllAdaptersRan
    /\ unique_rows.called =>
           /\ AllAdaptersRan
           /\ Elems(unique_rows.ret) \subseteq Elems(all_rows)
    /\ (\E k \in 1..Len(events) : events[k].op = "responses.create") =>
           /\ unique_rows.called
           /\ input_list[1].content.rows = unique_rows.ret

\* C17's case: a run has returned with rows of all three adapters, of
\* which de-duplication dropped some.
C17_Witness ==
    /\ pc = "return"
    /\ {all_rows[k].tool : k \in 1..Len(all_rows)}
           = {"read_feeds", "google_search", "scrape_pages"}
    /\ Len(unique_rows.ret) < Len(all_rows)
    /\ \E k \in 1..Len(events) : events[k].op = "responses.create"

----------------------------------------------------------------------------
(* Claims about ContentAgent (under SpecAgent).                            *)

\* The adapters the agent-directed mode exposes: the feed adapter and the
\* search adapter.
ExposedTools == {"read_feeds", "google_search"}

\* The tool invocations of a model response.
ToolInvocations(answer) ==
    SelectSeq(answer.output, LAMBDA item : item.type = "function_call")

\* The last n elements of s.
LastN(s, n) == SubSeq(s, Len(s) - n + 1, Len(s))

\* C18: the agent loop executes no adapter but the feed adapter and the
\* search adapter: the scraper is never called and no page is fetched;
\* there are at most as many adapter calls as the model made calls that
\* name one of the two; and once the calls of a response are answered,
\* every call that names another tool has the "Unknown tool" error for
\* its result, not the result of an adapter.
C18_OnlyRegisteredTools ==
    /\ \A k \in 1..Len(events) :
           /\ events[k].op = "execute" => events[k].arg \in ExposedTools
           /\ events[k].op # "requests.get"
    /\ Len(SelectSeq(events, LAMBDA e : e.op = "execute"))
           <= Len(SelectSeq(input_list,
                      LAMBDA item : /\ item.type = "function_call"
                                    /\ item.name \in ExposedTools))
    /\ (pc = "create" /\ turns > 0) =>
           LET calls == ToolInvocations(response)
               results == LastN(input_list, Len(calls))
           IN  \A k \in 1..Len(calls) :
                   /\ results[k].type = "function_call_output"
                   /\ IF calls[k].name \in ExposedTools
                      THEN /\ results[k].output.kind = "result"
                           /\ results[k].output.tool = calls[k].name
                      ELSE results[k].output =
                               [kind |-> "error",
                                error |-> <<"Unknown tool: ", calls[k].name>>]

\* C18's case: the model called the scraper by name, the call was
\* answered, and no adapter has been executed.
C18_Witness ==
    /\ pc = "create"
    /\ turns = 1
    /\ Len(ToolInvocations(response)) = 1
    /\ ToolInvocations(response)[1].name = "scrape_pages"
    /\ \A k \in 1..Len(events) : events[k].op # "execute"

\* run was called.
InRun == pc \in {"create", "tools", "returned", "raised"}

\* C19, as the claim states it: run goes on to the tool calls, and from
\* them to another model request, exactly when the last response holds a
\* tool invocation; and it has ended only if the model request failed, or
\* if the response holds no tool invocation, and then with the text of
\* that response for its return value.
C19_EndsOnlyOnAnswer ==
    /\ (pc = "tools" \/ (pc = "create" /\ turns > 0)) =>
           /\ ToolInvocations(response) # <<>>
           /\ ~outcome.done
    /\ (InRun /\ outcome.done) =>
           \/ response.exc # "none"
           \/ /\ ToolInvocations(response) = <<>>
              /\ ~outcome.raised
              /\ outcome.text = output_text(response.output)

\* C19, amended: as above, but run has also ended when one of the tool
\* calls of the last response raised (json.loads on its arguments, or the
\* adapter's execute): the exception leaves run, which returns no text
\* and issues no further model request. Every turn of the loop issues
\* one model request.
C19_EndsOnAnswerOrRaise ==
    /\ (pc = "tools" \/ (pc = "create" /\ turns > 0)) =>
           /\ ToolInvocations(response) # <<>>
           /\ ~outcome.done
    /\ (InRun /\ outcome.done) =>
           \/ response.exc # "none" /\ ~outcome.raised
           \/ /\ response.exc = "none"
              /\ ToolInvocations(response) = <<>>
              /\ ~outcome.raised
              /\ outcome.text = output_text(response.output)
           \/ /\ response.exc = "none"
              /\ ToolInvocations(response) # <<>>
              /\ outcome.raised
              /\ outcome.exc \in {"JSONDecodeError", "TypeError", "KeyError"}
    /\ InRun =>
           Len(SelectSeq(events, LAMBDA e : e.op = "responses.create")) = turns

\* C19's case: run returned the model's text after as many turns as the
\* model chose to take (all but the last with tool calls).
C19_Witness ==
    /\ pc = "returned"
    /\ turns = MaxTurns
    /\ response.exc = "none"
    /\ outcome.text = <<"Total relevant articles found: 0">>
    /\ \E k \in 1..Len(events) : events[k].op = "execute"

\* C20: when the model request of run or of summarize raises, whatever
\* the exception, the method raises nothing and returns a text that
\* begins with "Error: "; the text for an authentication failure and the
\* text for a quota failure are not the same.
C20_ModelFailureIsText ==
    (pc \in {"returned", "raised", "summarized"} /\ response.exc # "none") =>
        /\ outcome.done
        /\ ~outcome.raised
        /\ outcome.text # <<>>
        /\ outcome.text[1] = "Error: "
        /\ response.exc = "AuthenticationError" =>
               outcome.text[2] = "Invalid API key. Check your .env file."
        /\ response.exc = "RateLimitError" =>
               outcome.text[2] = "No OpenAI credits remaining. "

\* C20's case: the second model request of run failed for quota.
C20_Witness ==
    /\ pc = "returned"
    /\ turns = 2
    /\ response.exc = "RateLimitError"

----------------------------------------------------------------------------
(* Claims about scraping one page (under SpecTools).                       *)

\* url is a URL of the call.
IsScrapeInput(url) ==
    \E k \in 1..Len(ScrapeInputUrls) : ScrapeInputUrls[k] = url

\* The page of url was fetched by the call and handed on as HTML.
PageFetched(url) ==
    /\ IsScrapeInput(url)
    /\ url \in FetchableUrls
    /\ _fetch_page(url).ok

\* The extraction of entries from the page of url fails: one of its
\* anchors carries an href that urljoin cannot resolve.
ExtractionFails(url) ==
    \E k \in 1..Len(web[url].html.anchors) :
        /\ web[url].html.anchors[k].has_href
        /\ web[url].html.anchors[k].href = "http://[bad"

\* C21, as the claim states it. When execute is called on URLs that
\* urlparse takes, a page whose extraction fails does not end the call:
\* execute returns its results and skipped lists, and in them every
\* other page that was fetched has been scraped, and every URL that was
\* not fetched is listed in skipped.
C21_ParseErrorIsolated ==
    (/\ scrape_out.called
     /\ \A k \in 1..Len(ScrapeInputUrls) : ~urlparse(ScrapeInputUrls[k]).raised)
        => /\ ~scrape_out.raised
           /\ \A k \in 1..Len(ScrapeInputUrls) :
                  LET url == ScrapeInputUrls[k]
                  IN  IF PageFetched(url)
                      THEN ExtractionFails(url)
                           \/ \E j \in 1..Len(scrape_out.scraped) :
                                  scrape_out.scraped[j] = url
                      ELSE SkipReasons(url) # {}

\* C21, without the failure: when no fetched page of the call fails in
\* extraction, execute returns and every URL is scraped or skipped.
C21_NoFailureNoAbort ==
    (/\ scrape_out.called
     /\ \A k \in 1..Len(ScrapeInputUrls) :
            /\ ~urlparse(ScrapeInputUrls[k]).raised
            /\ PageFetched(ScrapeInputUrls[k])
                   => ~ExtractionFails(ScrapeInputUrls[k]))
        => /\ ~scrape_out.raised
           /\ \A k \in 1..Len(ScrapeInputUrls) :
                  IF PageFetched(ScrapeInputUrls[k])
                  THEN \E j \in 1..Len(scrape_out.scraped) :
                           scrape_out.scraped[j] = ScrapeInputUrls[k]
                  ELSE SkipReasons(ScrapeInputUrls[k]) # {}

----------------------------------------------------------------------------
(* Claims about the request of the search adapter (under SpecTools).       *)

\* execute sent a request to the search provider.
SearchRequested == google_out.called /\ ~google_out.raised

\* C22, as the claim states it. The num of the request the search adapter
\* sends is an integer from 1 to 10, and 5 when the caller gave no
\* num_results; its dateRestrict is "w1" when the caller gave no
\* date_restrict.
C22_RequestedCount ==
    SearchRequested =>
        /\ google_out.request.num \in 1..10
        /\ ~google_args.num_given => google_out.request.num = 5
        /\ ~google_args.date_given => google_out.request.dateRestrict = "w1"

\* C22, for the defaults alone: num is 5 and dateRestrict is "w1" when
\* the caller gave none, and what the caller gave otherwise, whatever it
\* is.
C22_Defaults ==
    SearchRequested =>
        /\ google_out.request.num =
               IF google_args.num_given THEN google_args.num_results ELSE 5
        /\ google_out.request.dateRestrict =
               IF google_args.date_given THEN google_args.date_restrict
               ELSE "w1"

----------------------------------------------------------------------------
(* Claims about _extract_entries (under SpecExtract).                      *)

\* _extract_entries returned its list (no exception left it).
ExtractReturned == extract_out.called /\ ~extract_out.ret.raised

\* The anchors of the page, in document order.
PageAnchors == extract_args.html.anchors

\* The anchor links to a page: it has an href, and the href is not empty,
\* a fragment, a script or a mail address.
LinksToPage(anchor) ==
    /\ anchor.has_href
    /\ StripHref(anchor.href)
           \notin {"", "#top", "javascript:void(0)", "mailto:a@b"}

\* The URL the anchor's href resolves to against base_url ("" when it
\* cannot be resolved).
Resolved(anchor) ==
    urljoin(extract_args.base_url, StripHref(anchor.href)).url

\* The anchors that are the first link of the page to their URL.
FirstLinks ==
    {k \in 1..Len(PageAnchors) :
        /\ LinksToPage(PageAnchors[k])
        /\ \A j \in 1..(k - 1) :
               LinksToPage(PageAnchors[j]) =>
                   Resolved(PageAnchors[j]) # Resolved(PageAnchors[k])}

\* The first links with a context text of at least 15 characters.
LongFirstLinks ==
    {k \in FirstLinks : Len(ContextText(PageAnchors[k])) >= 15}

\* C23: _extract_entries returns at most 200 entries, each with a context
\* text of at least 15 characters: the entries of the first 200 links of
\* the page that are the first to their URL and have such a text (short
\* texts do not count towards the 200), all of them when they are fewer.
\* It stops there: a link it could not resolve makes it fail only if
\* fewer than 200 such links come before it.
C23_EntryCap ==
    extract_out.called =>
        LET long == LongFirstLinks
            kept == {k \in long : Cardinality({j \in long : j < k}) < 200}
            entries == extract_out.ret.entries
        IN  IF extract_out.ret.raised
            THEN \E k \in long :
                     /\ Resolved(PageAnchors[k]) = ""
                     /\ Cardinality({j \in long : j < k}) < 200
            ELSE /\ Len(entries) <= 200
                 /\ \A i \in 1..Len(entries) : Len(entries[i].text) >= 15
                 /\ Len(entries) = Cardinality(kept)
                 /\ {entries[i].url : i \in 1..Len(entries)}
                        = {Resolved(PageAnchors[k]) : k \in kept}

\* C23's case: a page with more than 200 links that count, and a link
\* with a short text among them, gave exactly 200 entries.
C23_Witness ==
    /\ ExtractReturned
    /\ Len(extract_out.ret.entries) = 200
    /\ Cardinality(LongFirstLinks) > 200
    /\ FirstLinks # LongFirstLinks

\* C28: no two entries of a page have the same URL, and of the links to
\* one URL only the first in document order is considered: every entry
\* carries the context text of the first link to its URL, and a URL whose
\* first link has a context text shorter than 15 characters has no entry,
\* whatever the later links to it are.
C28_DedupBeforeLength ==
    ExtractReturned =>
        LET first == FirstLinks
            entries == extract_out.ret.entries
        IN  /\ \A i, j \in 1..Len(entries) :
                   entries[i].url = entries[j].url => i = j
            /\ \A i \in 1..Len(entries) :
                   \E k \in first :
                       /\ Resolved(PageAnchors[k]) = entries[i].url
                       /\ ContextText(PageAnchors[k]) = entries[i].text
            /\ \A k \in first :
                   Len(ContextText(PageAnchors[k])) < 15 =>
                       \A i \in 1..Len(entries) :
                           entries[i].url # Resolved(PageAnchors[k])

\* C28's case: the first link to a URL has a short text, a later link to
\* the same URL has a text of 15 characters or more, and the URL has no
\* entry although the page has entries.
C28_Witness ==
    /\ ExtractReturned
    /\ extract_out.ret.entries # <<>>
    /\ \E k \in FirstLinks :
           /\ Len(ContextText(PageAnchors[k])) < 15
           /\ \E j \in (k + 1)..Len(PageAnchors) :
                  /\ LinksToPage(PageAnchors[j])
                  /\ Resolved(PageAnchors[j]) = Resolved(PageAnchors[k])
                  /\ Len(ContextText(PageAnchors[j])) >= 15
           /\ \A i \in 1..Len(extract_out.ret.entries) :
                  extract_out.ret.entries[i].url # Resolved(PageAnchors[k])

----------------------------------------------------------------------------
(* Claim about rows of several adapters (under SpecMain).                  *)

\* The tools whose rows in the merged list carry url.
EmittedBy(url) ==
    {all_rows[k].tool : k \in {j \in 1..Len(all_rows) : all_rows[j].url = url}}

\* C24: after de-duplication in the deterministic run, every URL that is
\* not empty and was emitted by an adapter (it is in the feed reader's
\* articles, in the scraper's results or in a row of the merged list) has
\* exactly one row, the row of the earliest of the adapters that emitted
\* it in the order feeds, search, scrape: it is the first row with that
\* URL in the merged list, all its fields included.
C24_EarliestAdapterWins ==
    (unique_rows.called /\ pc # "idle") =>
        /\ \A k \in 1..Len(feed_out.ret) :
               feed_out.ret[k].url # "" =>
                   "read_feeds" \in EmittedBy(feed_out.ret[k].url)
        /\ \A k \in 1..Len(scrape_out.results) :
               "scrape_pages" \in EmittedBy(scrape_out.results[k].url)
        /\ \A k \in 1..Len(all_rows) :
               all_rows[k].url # "" =>
                   LET url == all_rows[k].url
                       kept == {i \in 1..Len(unique_rows.ret) :
                                    unique_rows.ret[i].url = url}
                   IN  /\ Cardinality(kept) = 1
                       /\ \A i \in kept :
                              /\ \A tool \in EmittedBy(url) :
                                     ToolRank(unique_rows.ret[i].tool)
                                         <= ToolRank(tool)
                              /\ \E j \in 1..k :
                                     /\ all_rows[j] = unique_rows.ret[i]
                                     /\ \A h \in 1..(j - 1) :
                                            all_rows[h].url # url

\* C24's case: one URL was emitted by all three adapters, in rows that
\* differ, and the row that is left is the feed reader's.
C24_Witness ==
    /\ unique_rows.called
    /\ pc # "idle"
    /\ \E url \in {all_rows[k].url : k \in 1..Len(all_rows)} :
           /\ url # ""
           /\ EmittedBy(url) = {"read_feeds", "google_search", "scrape_pages"}
           /\ \E i \in 1..Len(unique_rows.ret) :
                  /\ unique_rows.ret[i].url = url
                  /\ unique_rows.ret[i].tool = "read_feeds"
                  /\ \E k \in 1..Len(all_rows) :
                         /\ all_rows[k].url = url
                         /\ all_rows[k].tool = "scrape_pages"
                         /\ all_rows[k].summary # unique_rows.ret[i].summary

----------------------------------------------------------------------------
(* Claims about the tool calls of ContentAgent.run (under SpecAgent).      *)

\* The items of the given type in the input list.
InputItems(type) == SelectSeq(input_list, LAMBDA item : item.type = type)

\* The tool call fails: its name has a tool, and its arguments are no
\* JSON, or no JSON object, or lack the query the search needs.
CallFails(call) ==
    /\ call.name \in ExposedTools
    /\ \/ call.arguments.json # "object"
       \/ call.name = "google_search" /\ ~call.arguments.kwargs.has_query

\* C25: when run stands before a model request that is not the first,
\* the input list ends with the output items of the last response and,
\* after them, one function_call_output for each of its function calls,
\* in the order of the calls and with the call_id of the call; the output
\* of a call that names no tool is the "Unknown tool" error. Whenever run
\* stands before a model request or has returned, the list holds as many
\* function_call_output items as function calls, with the same call_ids
\* in the same order, after the user's message.
C25_EveryCallAnswered ==
    /\ (pc = "create" /\ turns > 0) =>
           LET calls == ToolInvocations(response)
               n == Len(calls)
               m == Len(response.output)
               results == LastN(input_list, n)
           IN  /\ n > 0
               /\ Len(input_list) > n + m
               /\ SubSeq(input_list, Len(input_list) - n - m + 1,
                         Len(input_list) - n) = response.output
               /\ \A k \in 1..n :
                      /\ results[k].type = "function_call_output"
                      /\ results[k].call_id = calls[k].call_id
                      /\ calls[k].name \notin ExposedTools =>
                             results[k].output =
                                 [kind |-> "error",
                                  error |-> <<"Unknown tool: ",
                                              calls[k].name>>]
    /\ pc \in {"create", "returned"} =>
           /\ input_list[1] = Message("user", <<"user_prompt">>)
           /\ Len(InputItems("function_call_output"))
                  = Len(InputItems("function_call"))
           /\ \A k \in 1..Len(InputItems("function_call")) :
                  InputItems("function_call_output")[k].call_id
                      = InputItems("function_call")[k].call_id

\* C25's case: a response held a call that names no tool and a search;
\* both were answered, the first with the error and the second with the
\* result of the search, and run stands before its next model request.
C25_Witness ==
    /\ pc = "create"
    /\ turns = 1
    /\ Len(ToolInvocations(response)) = 2
    /\ ToolInvocations(response)[1].name = "delete_rows"
    /\ LastN(input_list, 2)[1].output.kind = "error"
    /\ LastN(input_list, 2)[2].output.kind = "result"
    /\ LastN(input_list, 2)[2].call_id = "c2"

\* C26: a tool call that fails ends run by its exception. When run was
\* left by an exception, the model request had succeeded, the last
\* response holds a call that fails, no text is returned, and the input
\* list ends with the output items of the response and the outputs of
\* the calls before the first that fails: none for that call, none for
\* the calls after it. When run got past the tool calls, none of them
\* fails. A model request that fails never ends run by an exception.
C26_ToolFailurePropagates ==
    /\ pc = "raised" =>
           LET calls == ToolInvocations(response)
               failing == {k \in 1..Len(calls) : CallFails(calls[k])}
               m == Len(response.output)
           IN  /\ response.exc = "none"
               /\ outcome.raised
               /\ outcome.text = <<>>
               /\ outcome.exc \in {"JSONDecodeError", "TypeError", "KeyError"}
               /\ failing # {}
               /\ \E k \in failing :
                      /\ \A j \in failing : k <= j
                      /\ Len(input_list) >= m + k - 1
                      /\ SubSeq(input_list, Len(input_list) - (k - 1) - m + 1,
                                Len(input_list) - (k - 1)) = response.output
                      /\ \A j \in 1..(k - 1) :
                             LastN(input_list, k - 1)[j].call_id
                                 = calls[j].call_id
    /\ (pc = "create" /\ turns > 0) =>
           \A k \in 1..Len(ToolInvocations(response)) :
               ~CallFails(ToolInvocations(response)[k])
    /\ (InRun /\ response.exc # "none") => ~outcome.raised

\* C26's case: the first call of a response was answered, the second, a
\* search without query, raised KeyError, and run was left without an
\* output for it.
C26_Witness ==
    /\ pc = "raised"
    /\ outcome.exc = "KeyError"
    /\ Len(ToolInvocations(response)) = 2
    /\ LastN(input_list, 1)[1].type = "function_call_output"
    /\ LastN(input_list, 1)[1].call_id = "c1"

----------------------------------------------------------------------------
(* Claim about an empty URL list (under SpecTools).                        *)

\* The keyword arguments of a call that gives no list.
ListOmitted == [given |-> FALSE, urls |-> <<>>]

\* C27: a call of the scraper, or of the feed reader, with an empty list
\* gives what the call without the argument gives in the same world, and
\* it goes through the built-in list: unless an exception left the
\* scraper, every page of SCRAPE_URLS was scraped or is listed in
\* skipped; every feed of RSS_FEEDS was handed to the parser.
C27_EmptyListIsDefault ==
    /\ (scrape_out.called /\ scrape_args.given /\ scrape_args.urls = <<>>) =>
           /\ scrape_out = ScrapeExecuteResult(ListOmitted)
           /\ scrape_out.raised
              \/ \A k \in 1..Len(SCRAPE_URLS) :
                     \/ \E j \in 1..Len(scrape_out.scraped) :
                            scrape_out.scraped[j] = SCRAPE_URLS[k]
                     \/ \E j \in 1..Len(scrape_out.skipped) :
                            scrape_out.skipped[j].url = SCRAPE_URLS[k]
    /\ (feed_out.called /\ feed_args.given /\ feed_args.urls = <<>>) =>
           /\ feed_out = FeedExecuteResult(ListOmitted)
           /\ feed_out.fetched = RSS_FEEDS

\* C27's case: the scraper was called with an empty list, scraped a page
\* of the built-in list and found an entry on it.
C27_Witness ==
    /\ scrape_out.called
    /\ scrape_args.given
    /\ scrape_args.urls = <<>>
    /\ ~scrape_out.raised
    /\ scrape_out.scraped # <<>>
    /\ scrape_out.results # <<>>

----------------------------------------------------------------------------
(* Claim about keywords of several lists (under SpecMatch).                *)

\* The number of times kw stands in the list keywords.
Times(kw, keywords) == Len(SelectSeq(keywords, LAMBDA k : k = kw))

\* The keywords of a list, as a set.
Listed(keywords) == {keywords[k] : k \in 1..Len(keywords)}

\* The keywords listed as region keyword and as primary or secondary
\* keyword too.
SharedKeywords ==
    Listed(REGION_KEYWORDS)
    \cap (Listed(PRIMARY_KEYWORDS) \cup Listed(SECONDARY_KEYWORDS))

=============================================================================
